---- MODULE Spec2Model ----
(***************************************************************************)
(* A model of the download engine of BunkrDownloader:                      *)
(*   AlbumDownloader   (src/src/downloaders/album_downloader.py)           *)
(*   MediaDownloader   (src/src/downloaders/media_downloader.py)           *)
(*   save_file_with_progress (src/src/downloaders/download_utils.py)       *)
(*   run_session_retry_pass  (src/src/downloaders/retry_manager.py)        *)
(*   the session log helpers (src/src/file_utils.py)                       *)
(*   SummaryManager    (src/src/managers/summary_manager.py)               *)
(*                                                                         *)
(* An item of the album is identified by its index 1..num_tasks; its       *)
(* download link is the index itself (links of distinct items differ).     *)
(* A file is a record [exists, data]; data is the sequence of its bytes.   *)
(* Byte k of the remote entity is the number k; a byte of a staging file   *)
(* left by an earlier run is the number -k, so that bytes written in this  *)
(* run can be told from bytes found on disk.                               *)
(*                                                                         *)
(* Code the downloaders call that the source tree does not hold is         *)
(* modelled from its call sites: LiveManager.update_summary as             *)
(* SummaryManager.update_result, subdomain_is_offline and                  *)
(* mark_subdomain_as_offline (src.bunkr_utils) as membership in and        *)
(* addition to the set of offline hosts, get_bunkr_status as the report of *)
(* the status page, fetch_page and get_download_info by their outcomes.    *)
(* File I/O is taken to succeed.  The retry pass is taken to resolve a     *)
(* link to the file name the main pass used.                               *)
(***************************************************************************)
EXTENDS Integers, Sequences, FiniteSets, TLC

\* ------------------------------------------------------------------ bounds
MaxItems == 2       \* item pages of an album in Spec
MaxLimit == 2       \* concurrency limits tried in Spec
MaxSize  == 2       \* bytes of a remote entity in SpecXfer
MainRetries == 2    \* the attempts of a main-pass download in Spec and SpecXfer
MaxWriters == 2     \* worker threads inside write_on_session_log in SpecAppend
MaxEntries == 3     \* links of the session log in SpecRewrite
MaxName == 3        \* characters of a file name in SpecStaging
MaxUpdates == 2     \* updates of the statistics by one worker thread in SpecCounters
MaxAlbums == 3      \* album URLs of a batch in SpecBatch
MaxCalls == 4       \* calls of update_result in SpecSummary

\* ------------------------------------------------------- program constants
DEFAULT_RETRIES == 5
MAX_WORKERS == 3
OK == 200
TOO_MANY_REQUESTS == 429
BAD_GATEWAY == 502
SERVICE_UNAVAILABLE == 503
SERVER_DOWN == 521

Hosts == {"h1", "h2"}

\* HTTP error statuses a download request is answered with: the four the code
\* tells apart and one other client error (404).
ErrStatuses == {TOO_MANY_REQUESTS, BAD_GATEWAY, SERVICE_UNAVAILABLE, SERVER_DOWN, 404}

\* How the body stream of a successful response ends: cleanly, with a
\* ChunkedEncodingError (disconnect in mid-stream), or with a
\* requests.exceptions.ConnectionError (read timeout in mid-stream).
Fins == {"end", "chunked", "conn"}

\* ------------------------------------------------------------------- files
NoFile == [exists |-> FALSE, data |-> <<>>]
File(bytes) == [exists |-> TRUE, data |-> bytes]
Entity(s) == [k \in 1..s |-> k]
Stale(p) == [k \in 1..p |-> 0 - k]
StSize(f) == IF f.exists THEN Len(f.data) ELSE 0

\* ------------------------------------------------------------- session log
\* The session log (the retry ledger) is one text file, one link per line.
get_session_urls(log) == IF log.exists THEN log.data ELSE <<>>

Range(seq) == {seq[k] : k \in 1..Len(seq)}

is_in_session_log(log, link) == log.exists /\ link \in Range(log.data)

write_on_session_log(log, link) ==
    IF link \in Range(get_session_urls(log))
    THEN log
    ELSE File(Append(get_session_urls(log), link))

RECURSIVE Without(_, _)
Without(seq, x) ==
    IF seq = <<>> THEN <<>>
    ELSE IF Head(seq) = x THEN Without(Tail(seq), x)
    ELSE <<Head(seq)>> \o Without(Tail(seq), x)

RECURSIVE Uniq(_)
Uniq(seq) ==
    IF seq = <<>> THEN <<>>
    ELSE <<Head(seq)>> \o Uniq(Without(Tail(seq), Head(seq)))

\* ----------------------------------------------------------------- summary
Results == {"COMPLETED", "FAILED", "SKIPPED"}
Reasons == {"DOWNLOAD_SUCCESS", "MAX_RETRIES_REACHED", "ALREADY_DOWNLOADED",
            "IGNORE_LIST", "INCLUDE_LIST", "DOMAIN_OFFLINE", "SERVICE_UNAVAILABLE"}

_get_task_result(reason) ==
    IF reason = "DOWNLOAD_SUCCESS" THEN "COMPLETED"
    ELSE IF reason = "MAX_RETRIES_REACHED" THEN "FAILED"
    ELSE "SKIPPED"

update_result(counts, reason) ==
    LET r == _get_task_result(reason) IN
    [counts EXCEPT ![r][reason] = @ + 1, ![r]["REASON_ALL"] = @ + 1]

get_result_count(counts, result) == counts[result]["REASON_ALL"]

\* ------------------------------------------------------------ host tracker
subdomain_is_offline(h, status) == h \in status
mark_subdomain_as_offline(status, h) == status \cup {h}

\* --------------------------------------------------------------- transport
\* An answer to one download request.  kind "noresp": the request raised a
\* RequestException that carries no response (timeout, connection refused or
\* reset); "err": raise_for_status raised for an error status; "ok": a
\* response with a success status whose stream delivers `deliver` bytes of
\* its body and then ends as `fin` says.  declared is the total size the
\* headers give (Content-Range total, else Content-Length), -1 when absent.
NoAnswer == [kind |-> "none", status |-> 0, declared |-> 0 - 1, deliver |-> 0, fin |-> "end"]

ErrAnswers ==
    {[kind |-> "noresp", status |-> 0, declared |-> 0 - 1, deliver |-> 0, fin |-> "end"]}
    \cup {[kind |-> "err", status |-> st, declared |-> 0 - 1, deliver |-> 0, fin |-> "end"] :
            st \in ErrStatuses}

\* Success answers for an entity of s bytes to a request whose Range header
\* starts at `from` (0: no Range header).  The server either sends the full
\* entity with status 200, or, for a satisfiable range, the bytes [from, s)
\* with status 206.
OkAnswers(s, from) ==
    {[kind |-> "ok", status |-> OK, declared |-> d, deliver |-> n, fin |-> f] :
        d \in {0 - 1, s}, n \in 0..s, f \in Fins}
    \cup (IF from > 0 /\ from < s
          THEN {[kind |-> "ok", status |-> 206, declared |-> d, deliver |-> n, fin |-> f] :
                    d \in {0 - 1, s}, n \in 0..(s - from), f \in Fins}
          ELSE {})

Answers(s, from) == ErrAnswers \cup OkAnswers(s, from)

\* The body of an error response: an error page, none of the entity's bytes.
ErrorPage == <<99>>

\* Rate-limit answers with their body: the response declares the length of
\* the error page or nothing, and delivers it in full or in part.
RateLimitAnswers ==
    {[kind |-> "err", status |-> TOO_MANY_REQUESTS, declared |-> d, deliver |-> n, fin |-> f] :
        d \in {0 - 1, Len(ErrorPage)}, n \in 0..Len(ErrorPage), f \in Fins}

\* The body of an answer: the whole entity, its tail for a 206, the error
\* page for an error status.
Body(a, s, from) ==
    IF a.kind # "ok" THEN ErrorPage
    ELSE IF a.status = 206 THEN SubSeq(Entity(s), from + 1, s) ELSE Entity(s)

\* ------------------------------------------------- MediaDownloader helpers
\* A rate-limit answer that is never retried.
_retry_with_backoff_never(attempt, retries) == FALSE

\* A backoff that sleeps and asks for a retry after the last attempt too.
_retry_with_backoff_always(attempt, retries) == TRUE

_retry_with_backoff(attempt, retries) == attempt < retries - 1

\* A handler that retries every error status with the backoff of a rate
\* limit.
_handle_request_exception_all_retried(a, attempt, retries) ==
    LET is_server_down ==
            a.kind = "noresp" \/ a.status \in {SERVER_DOWN, SERVICE_UNAVAILABLE}
    IN  IF is_server_down
        THEN [retry |-> FALSE, mark |-> TRUE, retries |-> retries]
        ELSE [retry |-> _retry_with_backoff(attempt, retries), mark |-> FALSE,
              retries |-> retries]

\* A handler that treats a host that is down like a rate limit: it marks
\* the host and retries while attempts remain.
_handle_request_exception_down_retried(a, attempt, retries) ==
    LET is_server_down ==
            a.kind = "noresp" \/ a.status \in {SERVER_DOWN, SERVICE_UNAVAILABLE}
    IN  IF is_server_down
        THEN [retry |-> _retry_with_backoff(attempt, retries), mark |-> TRUE,
              retries |-> retries]
        ELSE IF a.status = TOO_MANY_REQUESTS
        THEN [retry |-> _retry_with_backoff(attempt, retries), mark |-> FALSE,
              retries |-> retries]
        ELSE IF a.status = BAD_GATEWAY
        THEN [retry |-> FALSE, mark |-> FALSE, retries |-> 1]
        ELSE [retry |-> FALSE, mark |-> FALSE, retries |-> retries]

\* Result: retry (continue the attempt loop), mark (the host is marked
\* offline), retries (self.retries afterwards).
_handle_request_exception(a, attempt, retries) ==
    LET is_server_down ==
            a.kind = "noresp" \/ a.status \in {SERVER_DOWN, SERVICE_UNAVAILABLE}
    IN  IF is_server_down
        THEN [retry |-> FALSE, mark |-> TRUE, retries |-> retries]
        ELSE IF a.status = TOO_MANY_REQUESTS
        THEN [retry |-> _retry_with_backoff(attempt, retries), mark |-> FALSE,
              retries |-> retries]
        ELSE IF a.status = BAD_GATEWAY
        THEN [retry |-> FALSE, mark |-> FALSE, retries |-> 1]
        ELSE [retry |-> FALSE, mark |-> FALSE, retries |-> retries]

\* A promotion that does not look at the sizes.
promote_ok_always(file_size, total_downloaded) == TRUE

\* The size test that promotes the staging file to the final artifact.
promote_ok(file_size, total_downloaded) ==
    file_size # 0 - 1 /\ total_downloaded = file_size

\* A staging file that is always opened in mode "wb".
kept_on_open_truncating(tmp) == <<>>

\* The bytes the staging file holds once it is opened for writing: mode "ab"
\* keeps a non-empty file, mode "wb" truncates.
kept_on_open(tmp) == IF StSize(tmp) > 0 THEN tmp.data ELSE <<>>

\* save_file_with_progress: the response a, whose body is `body`, is written
\* to the staging file tmp of the final path fin.
\* Result: temp, final (the files afterwards), failed (the return value),
\* raised (a ConnectionError left the function), promoted, total (the bytes
\* counted in total_downloaded), declared.
save_file_with_progress(a, body, tmp, fin) ==
    LET file_size == a.declared
        existing_size == Len(fin.data)
        settled == fin.exists /\ file_size # 0 - 1 /\ existing_size >= file_size
        written == kept_on_open(tmp) \o SubSeq(body, 1, a.deliver)
        total_downloaded == Len(written)
        base == [temp |-> File(written), final |-> fin, failed |-> TRUE, raised |-> FALSE,
                 promoted |-> FALSE, total |-> total_downloaded, declared |-> file_size]
    IN  IF settled
        THEN [base EXCEPT !.temp = tmp, !.failed = FALSE, !.total = 0]
        ELSE IF a.fin = "chunked" THEN base
        ELSE IF a.fin = "conn" THEN [base EXCEPT !.raised = TRUE]
        ELSE IF promote_ok(file_size, total_downloaded)
        THEN [base EXCEPT !.temp = NoFile, !.final = File(written), !.failed = FALSE,
                          !.promoted = TRUE]
        ELSE base

\* A download() that catches no exception of the body stream.
caught_by_download_none(fin) == FALSE

\* The exceptions of the body stream that download() catches around
\* attempt_download (requests.exceptions.ConnectionError).
caught_by_download(fin) == fin = "conn"

\* A stale staging file that is left where it is.
discard_partial_kept(tmp) == tmp

\* The stale staging file after temp_path.unlink().
discard_partial(tmp) == NoFile

\* One iteration of the attempt loop of attempt_download, for the staging
\* file tmp, the final file fin and an entity of s bytes.  a1 answers the
\* request of the iteration; a2 answers the second request, made without a
\* Range header when a1 ignored the range (NoAnswer when none is made).
\* When a2 has an error status and the handler asks for a retry, the loop
\* is not left: `response` is by then the error response, and it is the one
\* given to save_file_with_progress.
\* Result: next ("retry": the loop goes on; "failed"/"ok": attempt_download
\* returns True/False; "raised": an exception of the stream leaves it), the
\* files afterwards, mark, retries, requests (the requests issued), saved
\* (which response save_file_with_progress was given) and its result sv.
attempt_iteration(tmp, fin, s, attempt, retries, a1, a2) ==
    LET existing_temp_size == StSize(tmp)
        ignored == existing_temp_size > 0 /\ a1.kind = "ok" /\ a1.status = OK
        h1 == _handle_request_exception(a1, attempt, retries)
        h2 == _handle_request_exception(a2, attempt, retries)
        sv == IF ~ignored
              THEN save_file_with_progress(a1, Body(a1, s, existing_temp_size), tmp, fin)
              ELSE save_file_with_progress(a2, Body(a2, s, 0), discard_partial(tmp), fin)
        nosave == [temp |-> tmp, final |-> fin, failed |-> TRUE, raised |-> FALSE,
                   promoted |-> FALSE, total |-> 0, declared |-> 0 - 1]
    IN  IF a1.kind # "ok"
        THEN [next |-> IF h1.retry THEN "retry" ELSE "failed", temp |-> tmp, final |-> fin,
              mark |-> h1.mark, retries |-> h1.retries, requests |-> 1,
              ignored |-> FALSE, saved |-> "none", sv |-> nosave]
        ELSE IF ignored /\ a2.kind # "ok" /\ ~h2.retry
        THEN [next |-> "failed", temp |-> discard_partial(tmp), final |-> fin,
              mark |-> h2.mark, retries |-> h2.retries, requests |-> 2,
              ignored |-> TRUE, saved |-> "none",
              sv |-> [nosave EXCEPT !.temp = discard_partial(tmp)]]
        ELSE [next |-> IF sv.raised THEN "raised" ELSE IF sv.failed THEN "failed" ELSE "ok",
              temp |-> sv.temp, final |-> sv.final, mark |-> FALSE, retries |-> retries,
              requests |-> IF ignored THEN 2 ELSE 1, ignored |-> ignored,
              saved |-> IF ignored THEN "second" ELSE "first",
              sv |-> sv]

\* ---------------------------------------------------------------- state
VARIABLES
    \* the run's inputs
    num_tasks,          \* len(album_info.item_pages)
    max_workers,        \* the concurrency limit of download_album
    host,               \* host[i]: the host that serves item i
    size,               \* size[i]: the bytes of the remote entity of item i
    ignore_hit,         \* ignore_hit[i]: the filename contains an --ignore word
    include_miss,       \* include_miss[i]: an --include list is given and no word of it is in the filename
    seed_status,        \* the hosts the status page reports as not operational
    arg_retries,        \* the attempts a main-pass MediaDownloader is created with
    observe,            \* whether xfer is recorded
    start,              \* the files and the session log as the run found them
    \* shared state
    semaphore,          \* free slots of asyncio.Semaphore(max_workers)
    bunkr_status,       \* session_info.bunkr_status of the run: hosts known offline
    retry_status,       \* bunkr_status of the session_info built by the session retry pass
    session_log,        \* the session log file
    result_counts,      \* SummaryManager._result_counts
    post_retry_count,   \* ProgressManager.post_retry_count
    failed_downloads,   \* AlbumDownloader.failed_downloads
    temp,               \* temp[i]: the staging file of item i
    final,              \* final[i]: the final artifact of item i
    \* the MediaDownloader of item i and the position of its call
    pc, mode, retries, is_final, attempt, ret,
    \* the driver: download_album, then run_session_retry_pass, then main
    phase, urls, idx, failed_urls,
    \* history
    handed,             \* handed[i]: item i was handed to a MediaDownloader in the main phase
    recorded,           \* recorded[i]: the reasons update_summary was called with for item i
    net_requests,       \* net_requests[i]: download requests the current call for item i issued
    marked,             \* hosts marked offline by this run
    call,               \* call[i]: what the current call of download() found when it began
    xfer,               \* xfer[i]: the last iteration of the attempt loop of the current call
    deferred,           \* deferred[i]: a main-pass call of download() deferred item i
    retry_loops,        \* retry_loops[i]: attempt loops that calls of the retry passes began for item i
    \* the steps of the file operations on the session log
    appender,           \* appender[w]: the call of write_on_session_log of worker thread w
    rewriter,           \* the position of run_session_retry_pass in its rewrites of the file
    staging,            \* staging[w]: the final path, the staging path and the position of worker w
    updater,            \* updater[w]: the update of the statistics that worker thread w is in
    batch,              \* the batch run of process_urls: its position, the session files, the links
    summary             \* a SummaryManager of its own: its Counters and the calls made of update_result

inputs == <<num_tasks, max_workers, host, size, ignore_hit, include_miss, seed_status,
            arg_retries, observe, start>>
shared == <<semaphore, bunkr_status, retry_status, session_log, result_counts,
            post_retry_count, failed_downloads, temp, final>>
percall == <<pc, mode, retries, is_final, attempt, ret>>
driver == <<phase, urls, idx, failed_urls>>
history == <<handed, recorded, net_requests, marked, call, xfer, deferred, retry_loops>>
fileops == <<appender, rewriter, staging, updater, batch, summary>>
vars == <<inputs, shared, percall, driver, history, fileops>>

Items == 1..num_tasks

NoXfer == [range_from |-> 0, before |-> NoFile, first |-> NoAnswer, second |-> NoAnswer,
           ignored |-> FALSE, saved |-> "none", next |-> "none",
           sv |-> [temp |-> NoFile, final |-> NoFile, failed |-> FALSE, raised |-> FALSE,
                   promoted |-> FALSE, total |-> 0, declared |-> 0 - 1]]
Writers == 1..MaxWriters
NoAppend == [pc |-> "idle", key |-> 0, existing |-> {}]
NoSummary == [counts |-> [r \in {"COMPLETED", "FAILED", "SKIPPED"} |->
                                [key \in {0 - 1} \cup 1..5 |-> 0]],
              returned |-> 0, raised |-> 0]
NoBatch == [pc |-> "idle", k |-> 1, ident |-> <<>>, path |-> 0,
            files |-> [n \in 0..MaxAlbums |-> NoFile], deferred |-> {},
            urls |-> <<>>, j |-> 1, attempts |-> [l \in 1..MaxAlbums |-> 0]]
NoUpdate == [pc |-> "idle", cell |-> "none", value |-> 0, deferrals |-> 0, results |-> 0]
NoStaging == [pc |-> "idle", final |-> <<>>, temp |-> <<>>]
NoRewrite == [pc |-> "idle", buf |-> <<>>, before |-> NoFile, after |-> NoFile]
NoCall == [base |-> 0, saw_marked |-> FALSE, in_log |-> FALSE, had_final |-> FALSE]

\* The 1-based ordinal the MediaDownloader of item i shows in its
\* messages.  execute_item_download constructs it with current_task + 1,
\* the album retry pass with the display_index of the record the main pass
\* returned, run_session_retry_pass with idx + 1, the position of the link in
\* the session file.
display_index(i) == IF mode[i] = "session" THEN idx ELSE i

\* Items inside the limiter-guarded section of execute_item_download.
Guarded == {"fetch", "dl_check", "attempt", "ok", "failed", "returned"}
InFlight == {i \in Items : mode[i] = "main" /\ pc[i] \in Guarded}

\* The session logs, as a previous run can leave them, over links 1..n.
RECURSIVE Sublists(_)
Sublists(n) ==
    IF n = 0 THEN {<<>>}
    ELSE Sublists(n - 1) \cup {Append(l, n) : l \in Sublists(n - 1)}

ZeroCounts == [r \in Results |-> [x \in Reasons \cup {"REASON_ALL"} |-> 0]]

\* Everything of the initial state that the inputs determine.
InitRest ==
    /\ start = [log |-> session_log, temp |-> temp, final |-> final]
    /\ semaphore = max_workers
    /\ bunkr_status = seed_status
    /\ retry_status = {}
    /\ result_counts = ZeroCounts
    /\ post_retry_count = 0
    /\ failed_downloads = <<>>
    /\ pc = [i \in Items |-> "pending"]
    /\ mode = [i \in Items |-> "main"]
    /\ retries = [i \in Items |-> arg_retries]
    /\ is_final = [i \in Items |-> FALSE]
    /\ attempt = [i \in Items |-> 0]
    /\ ret = [i \in Items |-> "none"]
    /\ phase = "main"
    /\ urls = <<>>
    /\ idx = 0
    /\ failed_urls = <<>>
    /\ handed = [i \in Items |-> FALSE]
    /\ recorded = [i \in Items |-> <<>>]
    /\ net_requests = [i \in Items |-> 0]
    /\ marked = {}
    /\ call = [i \in Items |-> NoCall]
    /\ xfer = [i \in Items |-> NoXfer]
    /\ deferred = [i \in Items |-> FALSE]
    /\ retry_loops = [i \in Items |-> 0]
    /\ appender = [w \in Writers |-> NoAppend]
    /\ rewriter = NoRewrite
    /\ staging = [w \in Writers |-> NoStaging]
    /\ updater = [w \in Writers |-> NoUpdate]
    /\ batch = NoBatch
    /\ summary = NoSummary

\* An album of up to MaxItems one-byte items, no filters, no staging files;
\* final artifacts and session log entries of an earlier run may exist.
Init ==
    /\ num_tasks \in 1..MaxItems
    /\ max_workers \in 1..MaxLimit
    /\ host \in {f \in [1..num_tasks -> Hosts] : f[1] = "h1"}
    /\ size = [i \in 1..num_tasks |-> 1]
    /\ ignore_hit = [i \in 1..num_tasks |-> FALSE]
    /\ include_miss = [i \in 1..num_tasks |-> FALSE]
    /\ seed_status \in {{}, {"h1"}}
    /\ arg_retries = MainRetries
    /\ observe = FALSE
    /\ session_log \in {NoFile} \cup {File(l) : l \in Sublists(num_tasks) \ {<<>>}}
    /\ temp = [i \in 1..num_tasks |-> NoFile]
    /\ final \in [1..num_tasks -> {NoFile, File(Entity(1))}]
    /\ InitRest

\* ------------------------------------------------------- download(): checks
\* _skip_file_download: the reason the download is skipped for, "none" when
\* it is not skipped.
_skip_file_download(final_exists, ign, inc, offline) ==
    IF final_exists THEN "ALREADY_DOWNLOADED"
    ELSE IF ign THEN "IGNORE_LIST"
    ELSE IF inc THEN "INCLUDE_LIST"
    ELSE IF offline THEN "DOMAIN_OFFLINE"
    ELSE "none"

\* Checks whose every skip writes the link to the session log.
download_checks_logging(bypass, in_log, final_attempt, offline, final_exists, ign, inc) ==
    LET why == _skip_file_download(final_exists, ign, inc, offline) IN
    IF ~bypass /\ in_log
    THEN [act |-> "defer", reason |-> "none", log_write |-> FALSE]
    ELSE IF offline /\ final_attempt
    THEN [act |-> "skip", reason |-> "DOMAIN_OFFLINE", log_write |-> TRUE]
    ELSE IF why # "none"
    THEN [act |-> "skip", reason |-> why, log_write |-> TRUE]
    ELSE [act |-> "go", reason |-> "none", log_write |-> FALSE]

\* download() up to the call of attempt_download.  act "defer": the link is
\* in the session log and the call returns None at once; "skip": the call
\* returns None after update_summary(reason); "go": the attempt loop starts.
\* log_write: write_on_session_log is called.
download_checks(bypass, in_log, final_attempt, offline, final_exists, ign, inc) ==
    LET why == _skip_file_download(final_exists, ign, inc, offline) IN
    IF ~bypass /\ in_log
    THEN [act |-> "defer", reason |-> "none", log_write |-> FALSE]
    ELSE IF offline /\ final_attempt
    THEN [act |-> "skip", reason |-> "DOMAIN_OFFLINE", log_write |-> TRUE]
    ELSE IF why # "none"
    THEN [act |-> "skip", reason |-> why, log_write |-> why = "DOMAIN_OFFLINE"]
    ELSE [act |-> "go", reason |-> "none", log_write |-> FALSE]

\* A failure that always yields a deferral record.
_handle_failed_download_record(final_attempt) ==
    [counted |-> TRUE, reason |-> "none", ret |-> "record"]

\* _handle_failed_download: counted (increment_post_retry_count is called),
\* reason (update_summary is called with it, "none" when it is not), ret
\* (the return value: a deferral record, or None).
_handle_failed_download(final_attempt) ==
    IF ~final_attempt
    THEN [counted |-> TRUE, reason |-> "none", ret |-> "record"]
    ELSE [counted |-> FALSE, reason |-> "MAX_RETRIES_REACHED", ret |-> "none"]

\* The bunkr_status and the filters of the session_info the call of item i
\* was given: the session retry pass builds its own, with args = None.
Status(i) == IF mode[i] = "session" THEN retry_status ELSE bunkr_status
Bypass(i) == mode[i] = "session"
Ign(i) == mode[i] # "session" /\ ignore_hit[i]
Inc(i) == mode[i] # "session" /\ include_miss[i]

\* The MediaDownloader of item i is dropped after its download() returned;
\* what was noted of the call is dropped with it.
Drop(i) ==
    /\ retries' = [retries EXCEPT ![i] = arg_retries]
    /\ is_final' = [is_final EXCEPT ![i] = FALSE]
    /\ attempt' = [attempt EXCEPT ![i] = 0]
    /\ ret' = [ret EXCEPT ![i] = "none"]
    /\ call' = [call EXCEPT ![i] = NoCall]
    /\ net_requests' = [net_requests EXCEPT ![i] = 0]
    /\ xfer' = [xfer EXCEPT ![i] = NoXfer]

\* live_manager.update_summary(reason) for item i.
Summarise(i, reason) ==
    /\ result_counts' = IF reason = "none" THEN result_counts
                        ELSE update_result(result_counts, reason)
    /\ recorded' = IF reason = "none" THEN recorded
                   ELSE [recorded EXCEPT ![i] = Append(@, reason)]

\* ------------------------------------------------------------- main phase
\* Acquire without the wait for a free slot.
Acquire_unguarded(i) ==
    /\ phase = "main"
    /\ pc[i] = "pending"
    /\ semaphore' = semaphore - 1
    /\ pc' = [pc EXCEPT ![i] = "fetch"]
    /\ UNCHANGED <<inputs, fileops, bunkr_status, retry_status, session_log, result_counts,
                   post_retry_count, failed_downloads, temp, final>>
    /\ UNCHANGED <<mode, retries, is_final, attempt, ret, driver, history>>

\* execute_item_download enters "async with semaphore".
Acquire(i) ==
    /\ phase = "main"
    /\ pc[i] = "pending"
    /\ semaphore > 0
    /\ semaphore' = semaphore - 1
    /\ pc' = [pc EXCEPT ![i] = "fetch"]
    /\ UNCHANGED <<inputs, fileops, bunkr_status, retry_status, session_log, result_counts,
                   post_retry_count, failed_downloads, temp, final>>
    /\ UNCHANGED <<mode, retries, is_final, attempt, ret, driver, history>>

\* An execute_item_download that keeps its slot of the limiter when it ends
\* without a MediaDownloader.
FetchPage_leaking(i, res) ==
    /\ pc[i] = "fetch"
    /\ handed' = [handed EXCEPT ![i] = res = "ok"]
    /\ pc' = [pc EXCEPT ![i] = IF res = "ok" THEN "dl_check" ELSE "done"]
    /\ semaphore' = semaphore
    /\ retries' = [retries EXCEPT ![i] = arg_retries]
    /\ UNCHANGED <<inputs, fileops, bunkr_status, retry_status, session_log, result_counts,
                   post_retry_count, failed_downloads, temp, final>>
    /\ UNCHANGED <<mode, is_final, attempt, ret, driver>>
    /\ UNCHANGED <<recorded, net_requests, marked, call, xfer, deferred, retry_loops>>

\* fetch_page and get_download_info of execute_item_download.  res "none":
\* the page could not be handed; "nolink": no download link was found; in
\* both the coroutine ends and leaves the limiter.  "ok": a MediaDownloader
\* is created and download() starts in a worker thread.
FetchPage(i, res) ==
    /\ pc[i] = "fetch"
    /\ handed' = [handed EXCEPT ![i] = res = "ok"]
    /\ pc' = [pc EXCEPT ![i] = IF res = "ok" THEN "dl_check" ELSE "done"]
    /\ semaphore' = IF res = "ok" THEN semaphore ELSE semaphore + 1
    /\ retries' = [retries EXCEPT ![i] = arg_retries]
    /\ UNCHANGED <<inputs, fileops, bunkr_status, retry_status, session_log, result_counts,
                   post_retry_count, failed_downloads, temp, final>>
    /\ UNCHANGED <<mode, is_final, attempt, ret, driver>>
    /\ UNCHANGED <<recorded, net_requests, marked, call, xfer, deferred, retry_loops>>

\* download(), from its first line to the call of attempt_download.
DlCheck(i) ==
    LET d == download_checks(Bypass(i), is_in_session_log(session_log, i),
                             retries[i] = 1, subdomain_is_offline(host[i], Status(i)),
                             final[i].exists, Ign(i), Inc(i))
    IN  /\ pc[i] = "dl_check"
        /\ call' = [call EXCEPT ![i] =
                      [base |-> Len(recorded[i]), saw_marked |-> host[i] \in marked,
                       in_log |-> is_in_session_log(session_log, i),
                       had_final |-> final[i].exists]]
        /\ is_final' = [is_final EXCEPT ![i] = retries[i] = 1]
        /\ attempt' = [attempt EXCEPT ![i] = 0]
        /\ ret' = [ret EXCEPT ![i] = "none"]
        /\ session_log' = IF d.log_write THEN write_on_session_log(session_log, i)
                          ELSE session_log
        /\ post_retry_count' = IF d.act = "defer" THEN post_retry_count + 1
                               ELSE post_retry_count
        /\ Summarise(i, d.reason)
        /\ pc' = [pc EXCEPT ![i] = IF d.act = "go" THEN "attempt" ELSE "returned"]
        /\ UNCHANGED <<inputs, fileops, semaphore, bunkr_status, retry_status, failed_downloads,
                       temp, final>>
        /\ deferred' = IF mode[i] = "main" /\ d.act = "defer"
                       THEN [deferred EXCEPT ![i] = TRUE] ELSE deferred
        /\ retry_loops' = IF mode[i] # "main" /\ d.act = "go"
                          THEN [retry_loops EXCEPT ![i] = @ + 1] ELSE retry_loops
        /\ UNCHANGED <<mode, retries, driver, handed, net_requests, marked, xfer>>

\* One iteration of the attempt loop: the request(s), the handling of the
\* answer and, for a success answer, save_file_with_progress.
Request(i, a1, a2) ==
    LET r == attempt_iteration(temp[i], final[i], size[i], attempt[i], retries[i], a1, a2)
        fin == IF r.saved = "second" THEN a2.fin ELSE a1.fin
    IN  /\ pc[i] = "attempt"
        /\ temp' = [temp EXCEPT ![i] = r.temp]
        /\ final' = [final EXCEPT ![i] = r.final]
        /\ retries' = [retries EXCEPT ![i] = r.retries]
        /\ attempt' = [attempt EXCEPT ![i] = IF r.next = "retry" THEN @ + 1 ELSE @]
        /\ bunkr_status' = IF r.mark /\ mode[i] # "session"
                           THEN mark_subdomain_as_offline(bunkr_status, host[i])
                           ELSE bunkr_status
        /\ retry_status' = IF r.mark /\ mode[i] = "session"
                           THEN mark_subdomain_as_offline(retry_status, host[i])
                           ELSE retry_status
        /\ marked' = IF r.mark THEN marked \cup {host[i]} ELSE marked
        /\ net_requests' = [net_requests EXCEPT ![i] = @ + r.requests]
        /\ xfer' = IF ~observe THEN xfer ELSE [xfer EXCEPT ![i] =
                      [range_from |-> StSize(temp[i]), before |-> temp[i], first |-> a1,
                       second |-> a2, ignored |-> r.ignored, saved |-> r.saved,
                       next |-> r.next, sv |-> r.sv]]
        /\ pc' = [pc EXCEPT ![i] =
                    IF r.next = "retry" THEN "attempt"
                    ELSE IF r.next = "ok" THEN "ok"
                    ELSE IF r.next = "failed" THEN "failed"
                    ELSE IF caught_by_download(fin) THEN "failed"
                    ELSE "escaped"]
        /\ UNCHANGED <<inputs, fileops, semaphore, session_log, result_counts, post_retry_count,
                       failed_downloads>>
        /\ UNCHANGED <<mode, is_final, ret, driver, handed, recorded, call, deferred,
                       retry_loops>>

\* download() after attempt_download: _handle_failed_download, or the
\* completion of the task.
Finish(i) ==
    LET h == _handle_failed_download(is_final[i]) IN
    /\ pc[i] \in {"ok", "failed"}
    /\ IF pc[i] = "ok"
       THEN /\ Summarise(i, "DOWNLOAD_SUCCESS")
            /\ ret' = [ret EXCEPT ![i] = "none"]
            /\ UNCHANGED <<post_retry_count, session_log>>
       ELSE /\ Summarise(i, h.reason)
            /\ ret' = [ret EXCEPT ![i] = h.ret]
            /\ post_retry_count' = IF h.counted THEN post_retry_count + 1
                                   ELSE post_retry_count
            /\ session_log' = write_on_session_log(session_log, i)
    /\ pc' = [pc EXCEPT ![i] = "returned"]
    /\ UNCHANGED <<inputs, fileops, semaphore, bunkr_status, retry_status, failed_downloads,
                   temp, final>>
    /\ UNCHANGED <<mode, retries, is_final, attempt, driver>>
    /\ deferred' = IF mode[i] = "main" /\ pc[i] = "failed" /\ h.ret = "record"
                   THEN [deferred EXCEPT ![i] = TRUE] ELSE deferred
    /\ UNCHANGED <<handed, net_requests, marked, call, xfer, retry_loops>>

\* A limiter whose slot is not given back by an item that was deferred.
Release_held(i) ==
    /\ mode[i] = "main"
    /\ pc[i] = "returned"
    /\ failed_downloads' = IF ret[i] = "record" THEN Append(failed_downloads, i)
                           ELSE failed_downloads
    /\ semaphore' = IF ret[i] = "record" THEN semaphore ELSE semaphore + 1
    /\ pc' = [pc EXCEPT ![i] = "done"]
    /\ Drop(i)
    /\ UNCHANGED <<inputs, fileops, bunkr_status, retry_status, session_log, result_counts,
                   post_retry_count, temp, final>>
    /\ UNCHANGED <<mode, driver, handed, recorded, marked, deferred, retry_loops>>

\* execute_item_download after download() returned: the deferral record is
\* appended to failed_downloads and the limiter is left.
Release(i) ==
    /\ mode[i] = "main"
    /\ pc[i] = "returned"
    /\ failed_downloads' = IF ret[i] = "record" THEN Append(failed_downloads, i)
                           ELSE failed_downloads
    /\ semaphore' = semaphore + 1
    /\ pc' = [pc EXCEPT ![i] = "done"]
    /\ Drop(i)
    /\ UNCHANGED <<inputs, fileops, bunkr_status, retry_status, session_log, result_counts,
                   post_retry_count, temp, final>>
    /\ UNCHANGED <<mode, driver, handed, recorded, marked, deferred, retry_loops>>

\* ------------------------------------------------------------ retry phases
\* A download_album that does not wait for the item coroutines.
GatherDone_early ==
    /\ phase = "main"
    /\ phase' = IF failed_downloads # <<>> THEN "album_retry" ELSE "session_start"
    /\ idx' = 1
    /\ UNCHANGED <<inputs, fileops, shared, percall, urls, failed_urls, history>>

\* download_album after asyncio.gather: all item coroutines have ended.
GatherDone ==
    /\ phase = "main"
    /\ \A i \in Items : pc[i] = "done"
    /\ phase' = IF failed_downloads # <<>> THEN "album_retry" ELSE "session_start"
    /\ idx' = 1
    /\ UNCHANGED <<inputs, fileops, shared, percall, urls, failed_urls, history>>

\* _retry_failed_download: a MediaDownloader with retries = 1 for the next
\* record of failed_downloads; download() starts in a worker thread.
AlbumRetryStart ==
    /\ phase = "album_retry"
    /\ idx <= Len(failed_downloads)
    /\ pc[failed_downloads[idx]] = "done"
    /\ pc' = [pc EXCEPT ![failed_downloads[idx]] = "dl_check"]
    /\ mode' = [mode EXCEPT ![failed_downloads[idx]] = "album"]
    /\ retries' = [retries EXCEPT ![failed_downloads[idx]] = 1]
    /\ UNCHANGED <<inputs, fileops, shared, is_final, attempt, ret, driver, history>>

\* _process_failed_downloads after the download() of a record returned: the
\* loop goes to the next record and, after the last, clears the list.
AlbumRetryDone ==
    /\ phase = "album_retry"
    /\ idx <= Len(failed_downloads)
    /\ pc[failed_downloads[idx]] = "returned"
    /\ pc' = [pc EXCEPT ![failed_downloads[idx]] = "done"]
    /\ idx' = IF idx = Len(failed_downloads) THEN 1 ELSE idx + 1
    /\ failed_downloads' = IF idx = Len(failed_downloads) THEN <<>> ELSE failed_downloads
    /\ phase' = IF idx = Len(failed_downloads) THEN "session_start" ELSE "album_retry"
    /\ Drop(failed_downloads[idx])
    /\ UNCHANGED <<inputs, fileops, semaphore, bunkr_status, retry_status, session_log,
                   result_counts, post_retry_count, temp, final>>
    /\ UNCHANGED <<mode, urls, failed_urls, handed, recorded, marked, deferred,
                   retry_loops>>

\* run_session_retry_pass up to its loop: the session file is read; with no
\* file or no link in it the pass ends; else a session_info with a fresh
\* bunkr_status is built and the retry counter is set.
SessionRetryStart ==
    LET read == get_session_urls(session_log) IN
    /\ phase = "session_start"
    /\ phase' = IF read = <<>> THEN "cleanup" ELSE "session_retry"
    /\ urls' = read
    /\ idx' = 1
    /\ failed_urls' = <<>>
    /\ retry_status' = IF read = <<>> THEN retry_status ELSE seed_status
    /\ post_retry_count' = IF read = <<>> THEN post_retry_count ELSE Len(read)
    /\ UNCHANGED <<inputs, fileops, semaphore, bunkr_status, session_log, result_counts,
                   failed_downloads, temp, final>>
    /\ UNCHANGED <<percall, history>>

\* A loop of run_session_retry_pass that starts download() for any link that
\* is left, without waiting for the one before it.
SessionEntryStart_any ==
    /\ phase = "session_retry"
    /\ \E k \in idx..Len(urls) :
          /\ pc[urls[k]] = "done"
          /\ pc' = [pc EXCEPT ![urls[k]] = "dl_check"]
          /\ mode' = [mode EXCEPT ![urls[k]] = "session"]
          /\ retries' = [retries EXCEPT ![urls[k]] = 1]
    /\ UNCHANGED <<inputs, fileops, shared, is_final, attempt, ret, driver, history>>

\* The loop of run_session_retry_pass: a MediaDownloader with retries = 1 and
\* bypass_session_check for the next link; download() starts in a thread.
SessionEntryStart ==
    /\ phase = "session_retry"
    /\ idx <= Len(urls)
    /\ pc[urls[idx]] = "done"
    /\ pc' = [pc EXCEPT ![urls[idx]] = "dl_check"]
    /\ mode' = [mode EXCEPT ![urls[idx]] = "session"]
    /\ retries' = [retries EXCEPT ![urls[idx]] = 1]
    /\ UNCHANGED <<inputs, fileops, shared, is_final, attempt, ret, driver, history>>

\* The loop of run_session_retry_pass after download() returned: a record
\* is kept in failed_urls; on None the link is removed from the session
\* file, which is rewritten, and the retry counter is decremented.
SessionEntryDone ==
    /\ phase = "session_retry"
    /\ idx <= Len(urls)
    /\ pc[urls[idx]] = "returned"
    /\ failed_urls' = IF ret[urls[idx]] = "record" THEN Append(failed_urls, urls[idx])
                      ELSE failed_urls
    /\ session_log' = IF ret[urls[idx]] # "record" /\ session_log.exists
                      THEN File(Without(session_log.data, urls[idx]))
                      ELSE session_log
    /\ post_retry_count' = IF ret[urls[idx]] # "record" THEN post_retry_count - 1
                           ELSE post_retry_count
    /\ pc' = [pc EXCEPT ![urls[idx]] = "done"]
    /\ idx' = idx + 1
    /\ Drop(urls[idx])
    /\ UNCHANGED <<inputs, fileops, semaphore, bunkr_status, retry_status, result_counts,
                   failed_downloads, temp, final>>
    /\ UNCHANGED <<mode, phase, urls, handed, recorded, marked, deferred, retry_loops>>

\* run_session_retry_pass after its loop: the links that failed again are
\* written back, without duplicates; with none the session file is removed.
SessionRewrite ==
    /\ phase = "session_retry"
    /\ idx > Len(urls)
    /\ session_log' = IF failed_urls # <<>> THEN File(Uniq(failed_urls)) ELSE NoFile
    /\ phase' = "cleanup"
    /\ UNCHANGED <<inputs, fileops, semaphore, bunkr_status, retry_status, result_counts,
                   post_retry_count, failed_downloads, temp, final>>
    /\ UNCHANGED <<percall, urls, idx, failed_urls, history>>

\* main after the retry pass: an empty session file is removed.
Cleanup ==
    /\ phase = "cleanup"
    /\ session_log' = IF session_log.exists /\ Len(session_log.data) = 0 THEN NoFile
                      ELSE session_log
    /\ phase' = "done"
    /\ UNCHANGED <<inputs, fileops, semaphore, bunkr_status, retry_status, result_counts,
                   post_retry_count, failed_downloads, temp, final>>
    /\ UNCHANGED <<percall, urls, idx, failed_urls, history>>

\* The answers to the second request of an iteration: one is made only when
\* a Range header was sent and a1 came back with status 200.
SecondAnswers(i, a1) ==
    IF StSize(temp[i]) > 0 /\ a1.kind = "ok" /\ a1.status = OK
    THEN Answers(size[i], 0) \cup RateLimitAnswers
    ELSE {NoAnswer}

Next ==
    \/ \E i \in Items : Acquire(i)
    \/ \E i \in Items : \E res \in {"none", "nolink", "ok"} : FetchPage(i, res)
    \/ \E i \in Items : DlCheck(i)
    \/ \E i \in Items : \E a1 \in Answers(size[i], StSize(temp[i])) :
            \E a2 \in SecondAnswers(i, a1) : Request(i, a1, a2)
    \/ \E i \in Items : Finish(i)
    \/ \E i \in Items : Release(i)
    \/ GatherDone
    \/ AlbumRetryStart
    \/ AlbumRetryDone
    \/ SessionRetryStart
    \/ SessionEntryStart
    \/ SessionEntryDone
    \/ SessionRewrite
    \/ Cleanup

Spec == Init /\ [][Next]_vars

\* Every coroutine and worker thread that can take a step eventually takes
\* it, and every request is eventually answered.
FairSpec == Spec /\ WF_vars(Next)

\* ------------------------------------------------ one item, byte by byte
\* An album of one item whose entity has up to MaxSize bytes; a staging file
\* of up to MaxSize bytes, a final artifact and a session log entry of an
\* earlier run may exist; the filename may be caught by the filters; the
\* iterations of the attempt loop are recorded in xfer.
InitXfer ==
    /\ num_tasks = 1
    /\ max_workers = 1
    /\ host = [i \in 1..1 |-> "h1"]
    /\ size \in [1..1 -> 1..MaxSize]
    /\ ignore_hit \in [1..1 -> BOOLEAN]
    /\ include_miss \in [1..1 -> BOOLEAN]
    /\ seed_status \in {{}, {"h1"}}
    /\ arg_retries = MainRetries
    /\ observe = TRUE
    /\ session_log \in {NoFile, File(<<1>>)}
    /\ temp \in [1..1 -> {NoFile} \cup {File(Stale(p)) : p \in 0..MaxSize}]
    /\ final \in {f \in [1..1 -> {NoFile} \cup {File(Entity(k)) : k \in 1..MaxSize}] :
                    f[1].exists => f[1] = File(Entity(size[1]))}
    /\ InitRest

SpecXfer == InitXfer /\ [][Next]_vars

\* ------------------------------------------------------------ the scenario
\* A new album of five items under the default limit and attempts: no file,
\* no session log, every host operational.
InitScenario ==
    /\ num_tasks = 5
    /\ max_workers = MAX_WORKERS
    /\ host = [i \in 1..5 |-> "h1"]
    /\ size = [i \in 1..5 |-> 1]
    /\ ignore_hit = [i \in 1..5 |-> FALSE]
    /\ include_miss = [i \in 1..5 |-> FALSE]
    /\ seed_status = {}
    /\ arg_retries = DEFAULT_RETRIES
    /\ observe = FALSE
    /\ session_log = NoFile
    /\ temp = [i \in 1..5 |-> NoFile]
    /\ final = [i \in 1..5 |-> NoFile]
    /\ InitRest

\* The transport of the scenario: the first request for items 2 and 4 is
\* answered 429; every other request is answered with the whole entity.
ScenarioAnswer(i) ==
    IF i \in {2, 4} /\ attempt[i] = 0
    THEN [kind |-> "err", status |-> TOO_MANY_REQUESTS, declared |-> 0 - 1, deliver |-> 0,
          fin |-> "end"]
    ELSE [kind |-> "ok", status |-> OK, declared |-> size[i], deliver |-> size[i],
          fin |-> "end"]

\* The steps of the run under the scenario's transport: every page fetch
\* succeeds and every request is answered as ScenarioAnswer says.  Nothing
\* is deferred, so the retry steps of the album and of the session log have
\* nothing to work on.
NextScenario ==
    \/ \E i \in Items : Acquire(i)
    \/ \E i \in Items : FetchPage(i, "ok")
    \/ \E i \in Items : DlCheck(i)
    \/ \E i \in Items : Request(i, ScenarioAnswer(i), NoAnswer)
    \/ \E i \in Items : Finish(i)
    \/ \E i \in Items : Release(i)
    \/ GatherDone
    \/ SessionRetryStart
    \/ Cleanup

SpecScenario == InitScenario /\ [][NextScenario]_vars

\* Every coroutine and worker thread that can take a step eventually takes
\* it: the event loop and the thread pool starve none.
FairScenario == SpecScenario /\ WF_vars(NextScenario)

\* ------------------------------------- the steps of write_on_session_log
\* Worker threads (asyncio.to_thread) call write_on_session_log with no lock
\* around it.  A call reads the lines of the file, then tests its key
\* against what it read and appends one line.

\* The links worker threads append.
Links == 1..MaxItems

\* The call of worker w reads the file into `existing`.
AppendRead(w, link) ==
    /\ appender[w].pc = "idle"
    /\ appender' = [appender EXCEPT ![w] =
                      [pc |-> "read", key |-> link,
                       existing |-> Range(get_session_urls(session_log))]]
    /\ UNCHANGED <<inputs, shared, percall, driver, history, rewriter, staging, updater, batch, summary>>

\* The lines written by open("a") and write of one line.
appended_line(log, key) == File(Append(get_session_urls(log), key))

\* The call of worker w returns if its key was among the lines it read, and
\* appends the key otherwise.
AppendWrite(w) ==
    /\ appender[w].pc = "read"
    /\ session_log' = IF appender[w].key \in appender[w].existing
                      THEN session_log
                      ELSE appended_line(session_log, appender[w].key)
    /\ appender' = [appender EXCEPT ![w].pc = "idle"]
    /\ UNCHANGED <<inputs, semaphore, bunkr_status, retry_status, result_counts,
                   post_retry_count, failed_downloads, temp, final>>
    /\ UNCHANGED <<percall, driver, history, rewriter, staging, updater, batch, summary>>

NextAppend ==
    \/ \E w \in Writers, link \in Links : AppendRead(w, link)
    \/ \E w \in Writers : AppendWrite(w)

\* Worker threads appending links to a session log that an earlier run may
\* have left; nothing else of the program runs.
InitAppend ==
    /\ num_tasks = MaxItems
    /\ max_workers = MaxWriters
    /\ host = [i \in 1..num_tasks |-> "h1"]
    /\ size = [i \in 1..num_tasks |-> 1]
    /\ ignore_hit = [i \in 1..num_tasks |-> FALSE]
    /\ include_miss = [i \in 1..num_tasks |-> FALSE]
    /\ seed_status = {}
    /\ arg_retries = MainRetries
    /\ observe = FALSE
    /\ session_log \in {NoFile} \cup {File(l) : l \in Sublists(MaxItems)}
    /\ temp = [i \in 1..num_tasks |-> NoFile]
    /\ final = [i \in 1..num_tasks |-> NoFile]
    /\ InitRest

SpecAppend == InitAppend /\ [][NextAppend]_vars

\* ------------------------- the rewrites of the file by the session retry pass
\* run_session_retry_pass at the granularity of its file operations, with a
\* crash of the process possible between any two of them.  open("w")
\* truncates the file; the lines written reach the file when the buffered
\* writer flushes, in one piece or in several.

\* The loop body for urls[idx]: a call that raises is kept in failed_urls;
\* otherwise the lines of the file are read and the url filtered out.
RewriteEntry(outcome) ==
    /\ rewriter.pc = "loop"
    /\ idx <= Len(urls)
    /\ IF outcome = "raised"
       THEN /\ failed_urls' = Append(failed_urls, urls[idx])
            /\ idx' = idx + 1
            /\ rewriter' = [rewriter EXCEPT !.before = session_log, !.after = session_log]
       ELSE IF session_log.exists
       THEN /\ rewriter' = [pc |-> "rm_open",
                            buf |-> Without(session_log.data, urls[idx]),
                            before |-> session_log,
                            after |-> File(Without(session_log.data, urls[idx]))]
            /\ UNCHANGED <<idx, failed_urls>>
       ELSE /\ idx' = idx + 1
            /\ rewriter' = [rewriter EXCEPT !.before = session_log, !.after = session_log]
            /\ UNCHANGED failed_urls
    /\ UNCHANGED <<inputs, shared, percall, phase, urls, history, appender, staging, updater, batch, summary>>

\* After the loop: the file is rewritten with the urls that failed, or
\* removed when none did.
RewriteFinal ==
    /\ rewriter.pc = "loop"
    /\ idx > Len(urls)
    /\ IF failed_urls # <<>>
       THEN /\ rewriter' = [pc |-> "fin_open", buf |-> Uniq(failed_urls),
                            before |-> session_log, after |-> File(Uniq(failed_urls))]
            /\ UNCHANGED session_log
       ELSE /\ rewriter' = [pc |-> "done", buf |-> <<>>, before |-> session_log,
                            after |-> NoFile]
            /\ session_log' = NoFile
    /\ UNCHANGED <<inputs, semaphore, bunkr_status, retry_status, result_counts,
                   post_retry_count, failed_downloads, temp, final>>
    /\ UNCHANGED <<percall, driver, history, appender, staging, updater, batch, summary>>

\* session_path.open("w"): the file is truncated.
RewriteOpen ==
    /\ rewriter.pc \in {"rm_open", "fin_open"}
    /\ session_log' = File(<<>>)
    /\ rewriter' = [rewriter EXCEPT !.pc = IF @ = "rm_open" THEN "rm_flush" ELSE "fin_flush"]
    /\ UNCHANGED <<inputs, semaphore, bunkr_status, retry_status, result_counts,
                   post_retry_count, failed_downloads, temp, final>>
    /\ UNCHANGED <<percall, driver, history, appender, staging, updater, batch, summary>>

\* The next k buffered lines reach the file.
RewriteFlush(k) ==
    /\ rewriter.pc \in {"rm_flush", "fin_flush"}
    /\ k \in 1..Len(rewriter.buf)
    /\ session_log' = File(session_log.data \o SubSeq(rewriter.buf, 1, k))
    /\ rewriter' = [rewriter EXCEPT !.buf = SubSeq(@, k + 1, Len(@))]
    /\ UNCHANGED <<inputs, semaphore, bunkr_status, retry_status, result_counts,
                   post_retry_count, failed_downloads, temp, final>>
    /\ UNCHANGED <<percall, driver, history, appender, staging, updater, batch, summary>>

\* The file is closed with every line written: the loop goes on to the next
\* url, or the pass ends.
RewriteClose ==
    /\ rewriter.pc \in {"rm_flush", "fin_flush"}
    /\ rewriter.buf = <<>>
    /\ rewriter' = [rewriter EXCEPT !.pc = IF @ = "rm_flush" THEN "loop" ELSE "done",
                                    !.before = session_log, !.after = session_log]
    /\ idx' = IF rewriter.pc = "rm_flush" THEN idx + 1 ELSE idx
    /\ UNCHANGED <<inputs, shared, percall, phase, urls, failed_urls, history, appender, staging, updater, batch, summary>>

\* The process dies; the file stays as it is.
RewriteCrash ==
    /\ rewriter.pc \notin {"idle", "done", "crashed"}
    /\ rewriter' = [rewriter EXCEPT !.pc = "crashed"]
    /\ UNCHANGED <<inputs, shared, percall, driver, history, appender, staging, updater, batch, summary>>

NextRewrite ==
    \/ \E outcome \in {"none", "raised"} : RewriteEntry(outcome)
    \/ RewriteFinal
    \/ RewriteOpen
    \/ \E k \in 1..MaxEntries : RewriteFlush(k)
    \/ RewriteClose
    \/ RewriteCrash

\* The session retry pass has read the urls of a session log of up to
\* MaxEntries links and is about to enter its loop.
InitRewrite ==
    /\ num_tasks = MaxEntries
    /\ max_workers = 1
    /\ host = [i \in 1..num_tasks |-> "h1"]
    /\ size = [i \in 1..num_tasks |-> 1]
    /\ ignore_hit = [i \in 1..num_tasks |-> FALSE]
    /\ include_miss = [i \in 1..num_tasks |-> FALSE]
    /\ seed_status = {}
    /\ arg_retries = MainRetries
    /\ observe = FALSE
    /\ session_log \in {File(l) : l \in Sublists(MaxEntries) \ {<<>>}}
    /\ temp = [i \in 1..num_tasks |-> NoFile]
    /\ final = [i \in 1..num_tasks |-> NoFile]
    /\ start = [log |-> session_log, temp |-> temp, final |-> final]
    /\ semaphore = max_workers
    /\ bunkr_status = seed_status
    /\ retry_status = {}
    /\ result_counts = ZeroCounts
    /\ post_retry_count = Len(session_log.data)
    /\ failed_downloads = <<>>
    /\ pc = [i \in Items |-> "done"]
    /\ mode = [i \in Items |-> "main"]
    /\ retries = [i \in Items |-> arg_retries]
    /\ is_final = [i \in Items |-> FALSE]
    /\ attempt = [i \in Items |-> 0]
    /\ ret = [i \in Items |-> "none"]
    /\ phase = "session"
    /\ urls = session_log.data
    /\ idx = 1
    /\ failed_urls = <<>>
    /\ handed = [i \in Items |-> FALSE]
    /\ recorded = [i \in Items |-> <<>>]
    /\ net_requests = [i \in Items |-> 0]
    /\ marked = {}
    /\ call = [i \in Items |-> NoCall]
    /\ xfer = [i \in Items |-> NoXfer]
    /\ deferred = [i \in Items |-> FALSE]
    /\ retry_loops = [i \in Items |-> 0]
    /\ appender = [w \in Writers |-> NoAppend]
    /\ staging = [w \in Writers |-> NoStaging]
    /\ updater = [w \in Writers |-> NoUpdate]
    /\ batch = NoBatch
    /\ summary = NoSummary
    /\ rewriter = [pc |-> "loop", buf |-> <<>>, before |-> session_log,
                   after |-> session_log]

SpecRewrite == InitRewrite /\ [][NextRewrite]_vars

\* ------------------------------------------------------- staging paths
\* A file name is a sequence of characters; "." separates the suffix.
Chars == {"a", "b", "."}

RECURSIVE Names(_)
Names(n) ==
    IF n = 0 THEN {<<>>}
    ELSE Names(n - 1) \cup {Append(x, c) : x \in Names(n - 1), c \in Chars}

\* The names a file can have: not empty and not made of dots alone.
FileNames == {x \in Names(MaxName) : \E k \in 1..Len(x) : x[k] # "."}

\* str.rfind("."): the last index of a dot, 0 when there is none.
rfind_dot(name) ==
    LET dots == {k \in 1..Len(name) : name[k] = "."} IN
    IF dots = {} THEN 0 ELSE CHOOSE k \in dots : \A j \in dots : j <= k

\* PurePath.suffix: the part from the last dot on, unless that dot leads or
\* ends the name.
suffix(name) ==
    LET k == rfind_dot(name) IN
    IF k > 1 /\ k < Len(name) THEN SubSeq(name, k, Len(name)) ELSE <<>>

\* PurePath.with_suffix: the last suffix is replaced, or the new one added
\* when the name has none.
with_suffix(name, new) == SubSeq(name, 1, Len(name) - Len(suffix(name))) \o new

\* The suffix ".temp".
DotTemp == <<".", "temp">>

\* attempt_download and save_file_with_progress derive the staging path of
\* worker w from its final path.
StagePath(w) ==
    /\ staging[w].pc = "idle"
    /\ staging' = [staging EXCEPT ![w].pc = "named",
                                  ![w].temp = with_suffix(staging[w].final, DotTemp)]
    /\ UNCHANGED <<inputs, shared, percall, driver, history, appender, rewriter, updater, batch, summary>>

\* save_file_with_progress opens the staging file and writes the chunks.
StageOpen(w) ==
    /\ staging[w].pc = "named"
    /\ staging' = [staging EXCEPT ![w].pc = "writing"]
    /\ UNCHANGED <<inputs, shared, percall, driver, history, appender, rewriter, updater, batch, summary>>

\* The staging file is closed.
StageClose(w) ==
    /\ staging[w].pc = "writing"
    /\ staging' = [staging EXCEPT ![w].pc = "closed"]
    /\ UNCHANGED <<inputs, shared, percall, driver, history, appender, rewriter, updater, batch, summary>>

NextStaging ==
    \/ \E w \in Writers : StagePath(w)
    \/ \E w \in Writers : StageOpen(w)
    \/ \E w \in Writers : StageClose(w)

\* The workers of one album, each with the final path of its item; the
\* final paths of distinct items differ.
InitStaging ==
    /\ num_tasks = MaxWriters
    /\ max_workers = MaxWriters
    /\ host = [i \in 1..num_tasks |-> "h1"]
    /\ size = [i \in 1..num_tasks |-> 1]
    /\ ignore_hit = [i \in 1..num_tasks |-> FALSE]
    /\ include_miss = [i \in 1..num_tasks |-> FALSE]
    /\ seed_status = {}
    /\ arg_retries = MainRetries
    /\ observe = FALSE
    /\ session_log = NoFile
    /\ temp = [i \in 1..num_tasks |-> NoFile]
    /\ final = [i \in 1..num_tasks |-> NoFile]
    /\ start = [log |-> session_log, temp |-> temp, final |-> final]
    /\ semaphore = max_workers
    /\ bunkr_status = seed_status
    /\ retry_status = {}
    /\ result_counts = ZeroCounts
    /\ post_retry_count = 0
    /\ failed_downloads = <<>>
    /\ pc = [i \in Items |-> "pending"]
    /\ mode = [i \in Items |-> "main"]
    /\ retries = [i \in Items |-> arg_retries]
    /\ is_final = [i \in Items |-> FALSE]
    /\ attempt = [i \in Items |-> 0]
    /\ ret = [i \in Items |-> "none"]
    /\ phase = "main"
    /\ urls = <<>>
    /\ idx = 0
    /\ failed_urls = <<>>
    /\ handed = [i \in Items |-> FALSE]
    /\ recorded = [i \in Items |-> <<>>]
    /\ net_requests = [i \in Items |-> 0]
    /\ marked = {}
    /\ call = [i \in Items |-> NoCall]
    /\ xfer = [i \in Items |-> NoXfer]
    /\ deferred = [i \in Items |-> FALSE]
    /\ retry_loops = [i \in Items |-> 0]
    /\ appender = [w \in Writers |-> NoAppend]
    /\ rewriter = NoRewrite
    /\ updater = [w \in Writers |-> NoUpdate]
    /\ batch = NoBatch
    /\ summary = NoSummary
    /\ staging \in {f \in [Writers -> {[pc |-> "idle", final |-> n, temp |-> <<>>] :
                                        n \in FileNames}] :
                      \A v, w \in Writers : v # w => f[v].final # f[w].final}

SpecStaging == InitStaging /\ [][NextStaging]_vars

\* ------------------------------------------------ updates of the statistics
\* download() runs in worker threads (asyncio.to_thread) and updates the
\* statistics from there: increment_post_retry_count is
\* "self.post_retry_count += int(amount)", update_result is two "+= 1" on
\* counters of _result_counts.  Each "+=" reads the value, adds, and stores;
\* no lock is held, so the steps of two threads interleave.

\* The value of a cell of the statistics.
cell_value(c) ==
    IF c = "post" THEN post_retry_count
    ELSE IF c = "reason" THEN result_counts["COMPLETED"]["DOWNLOAD_SUCCESS"]
    ELSE result_counts["COMPLETED"]["REASON_ALL"]

\* Worker w begins an update: increment_post_retry_count ("deferred") or
\* update_result(DOWNLOAD_SUCCESS) ("result"), and reads the first cell.
UpdateLoad(w, kind) ==
    /\ updater[w].pc = "idle"
    /\ updater[w].deferrals + updater[w].results < MaxUpdates
    /\ updater' = [updater EXCEPT ![w].pc = "loaded",
                                  ![w].cell = IF kind = "deferred" THEN "post" ELSE "reason",
                                  ![w].value = cell_value(IF kind = "deferred" THEN "post"
                                                          ELSE "reason")]
    /\ UNCHANGED <<inputs, shared, percall, driver, history, appender, rewriter, staging, batch, summary>>

\* Worker w stores the value it read plus one.  After the counter of the
\* reason update_result goes on to the counter REASON_ALL.
UpdateStore(w) ==
    /\ updater[w].pc = "loaded"
    /\ post_retry_count' = IF updater[w].cell = "post" THEN updater[w].value + 1
                           ELSE post_retry_count
    /\ result_counts' =
          IF updater[w].cell = "reason"
          THEN [result_counts EXCEPT !["COMPLETED"]["DOWNLOAD_SUCCESS"] = updater[w].value + 1]
          ELSE IF updater[w].cell = "all"
          THEN [result_counts EXCEPT !["COMPLETED"]["REASON_ALL"] = updater[w].value + 1]
          ELSE result_counts
    /\ updater' = [updater EXCEPT
                     ![w].pc = IF updater[w].cell = "reason" THEN "between" ELSE "idle",
                     ![w].deferrals = IF updater[w].cell = "post" THEN @ + 1 ELSE @,
                     ![w].results = IF updater[w].cell = "all" THEN @ + 1 ELSE @]
    /\ UNCHANGED <<semaphore, bunkr_status, retry_status, session_log, failed_downloads,
                   temp, final>>
    /\ UNCHANGED <<inputs, percall, driver, history, appender, rewriter, staging, batch, summary>>

\* update_result reads the counter REASON_ALL.
UpdateLoadAll(w) ==
    /\ updater[w].pc = "between"
    /\ updater' = [updater EXCEPT ![w].pc = "loaded", ![w].cell = "all",
                                  ![w].value = cell_value("all")]
    /\ UNCHANGED <<inputs, shared, percall, driver, history, appender, rewriter, staging, batch, summary>>

NextCounters ==
    \/ \E w \in Writers : \E kind \in {"deferred", "result"} : UpdateLoad(w, kind)
    \/ \E w \in Writers : UpdateStore(w)
    \/ \E w \in Writers : UpdateLoadAll(w)

\* Worker threads about to update the statistics of a run that has
\* recorded nothing yet.
InitCounters ==
    /\ num_tasks = MaxWriters
    /\ max_workers = MaxWriters
    /\ host = [i \in 1..num_tasks |-> "h1"]
    /\ size = [i \in 1..num_tasks |-> 1]
    /\ ignore_hit = [i \in 1..num_tasks |-> FALSE]
    /\ include_miss = [i \in 1..num_tasks |-> FALSE]
    /\ seed_status = {}
    /\ arg_retries = MainRetries
    /\ observe = FALSE
    /\ session_log = NoFile
    /\ temp = [i \in 1..num_tasks |-> NoFile]
    /\ final = [i \in 1..num_tasks |-> NoFile]
    /\ InitRest

SpecCounters == InitCounters /\ [][NextCounters]_vars

\* ------------------------------------------------------------ the batch run
\* process_urls: validate_and_download for every album URL of the batch,
\* then one run_session_retry_pass.  handle_download_process calls
\* set_session_log_path with the identifier of its URL, which renames the
\* configured session file; write_on_session_log and the retry pass resolve
\* the file through get_session_log_path when they run.  The download of an
\* album is one step here: its outcome is that the album's link is
\* downloaded, is deferred to the session file, or that the album page is
\* not fetched.

Albums == 1..MaxAlbums

\* The name main() configures before the batch (from --session-id or the
\* time of day); the identifiers of the albums are 1..MaxAlbums.
StartName == 0
FileNamesOfBatch == {StartName} \cup Albums

\* set_session_log_path: the file name becomes <identifier>.txt (the
\* configured name is never absolute here).
set_session_log_path(identifier) == identifier

\* validate_and_download for the next URL of the batch.
BatchAlbum(outcome) ==
    LET a == batch.k
        path == IF outcome = "unavailable" THEN batch.path
                ELSE set_session_log_path(batch.ident[a])
    IN  /\ batch.pc = "albums"
        /\ a <= MaxAlbums
        /\ batch' = [batch EXCEPT
                       !.k = a + 1,
                       !.path = path,
                       !.files = IF outcome = "deferred"
                                 THEN [@ EXCEPT ![path] = write_on_session_log(@, a)]
                                 ELSE @,
                       !.deferred = IF outcome = "deferred" THEN @ \cup {a} ELSE @]
        /\ UNCHANGED <<inputs, shared, percall, driver, history>>
        /\ UNCHANGED <<appender, rewriter, staging, updater, summary>>

\* run_session_retry_pass, up to its loop: the links of the session file
\* that is configured now.
BatchRetryRead ==
    LET read == get_session_urls(batch.files[batch.path]) IN
    /\ batch.pc = "albums"
    /\ batch.k > MaxAlbums
    /\ batch' = [batch EXCEPT !.pc = IF read = <<>> THEN "done" ELSE "retry",
                              !.urls = read, !.j = 1]
    /\ UNCHANGED <<inputs, shared, percall, driver, history>>
    /\ UNCHANGED <<appender, rewriter, staging, updater, summary>>

\* One turn of the loop: download() with retries = 1 returns None, and the
\* link is removed from the session file.
BatchRetryEntry ==
    /\ batch.pc = "retry"
    /\ batch.j <= Len(batch.urls)
    /\ batch' = [batch EXCEPT
                   !.attempts[batch.urls[batch.j]] = @ + 1,
                   !.files[batch.path] = IF @.exists
                                         THEN File(Without(@.data, batch.urls[batch.j]))
                                         ELSE @,
                   !.j = @ + 1]
    /\ UNCHANGED <<inputs, shared, percall, driver, history>>
    /\ UNCHANGED <<appender, rewriter, staging, updater, summary>>

\* After the loop: no link failed again, the session file is removed.
BatchRetryEnd ==
    /\ batch.pc = "retry"
    /\ batch.j > Len(batch.urls)
    /\ batch' = [batch EXCEPT !.pc = "done", !.files[batch.path] = NoFile]
    /\ UNCHANGED <<inputs, shared, percall, driver, history>>
    /\ UNCHANGED <<appender, rewriter, staging, updater, summary>>

NextBatch ==
    \/ \E outcome \in {"downloaded", "deferred", "unavailable"} : BatchAlbum(outcome)
    \/ BatchRetryRead
    \/ BatchRetryEntry
    \/ BatchRetryEnd

\* A batch of MaxAlbums album URLs, each with an identifier, before the
\* first of them is processed; no session file exists.
InitBatch ==
    /\ num_tasks = 1
    /\ max_workers = 1
    /\ host = [i \in 1..num_tasks |-> "h1"]
    /\ size = [i \in 1..num_tasks |-> 1]
    /\ ignore_hit = [i \in 1..num_tasks |-> FALSE]
    /\ include_miss = [i \in 1..num_tasks |-> FALSE]
    /\ seed_status = {}
    /\ arg_retries = MainRetries
    /\ observe = FALSE
    /\ session_log = NoFile
    /\ temp = [i \in 1..num_tasks |-> NoFile]
    /\ final = [i \in 1..num_tasks |-> NoFile]
    /\ start = [log |-> session_log, temp |-> temp, final |-> final]
    /\ semaphore = max_workers
    /\ bunkr_status = seed_status
    /\ retry_status = {}
    /\ result_counts = ZeroCounts
    /\ post_retry_count = 0
    /\ failed_downloads = <<>>
    /\ pc = [i \in Items |-> "pending"]
    /\ mode = [i \in Items |-> "main"]
    /\ retries = [i \in Items |-> arg_retries]
    /\ is_final = [i \in Items |-> FALSE]
    /\ attempt = [i \in Items |-> 0]
    /\ ret = [i \in Items |-> "none"]
    /\ phase = "main"
    /\ urls = <<>>
    /\ idx = 0
    /\ failed_urls = <<>>
    /\ handed = [i \in Items |-> FALSE]
    /\ recorded = [i \in Items |-> <<>>]
    /\ net_requests = [i \in Items |-> 0]
    /\ marked = {}
    /\ call = [i \in Items |-> NoCall]
    /\ xfer = [i \in Items |-> NoXfer]
    /\ deferred = [i \in Items |-> FALSE]
    /\ retry_loops = [i \in Items |-> 0]
    /\ appender = [w \in Writers |-> NoAppend]
    /\ rewriter = NoRewrite
    /\ staging = [w \in Writers |-> NoStaging]
    /\ updater = [w \in Writers |-> NoUpdate]
    /\ summary = NoSummary
    /\ batch \in {[NoBatch EXCEPT !.pc = "albums", !.ident = f] : f \in [Albums -> Albums]}

SpecBatch == InitBatch /\ [][NextBatch]_vars

\* ------------------------------------------------ SummaryManager's counters
\* SummaryManager keeps one Counter per TaskResult.  The keys of a Counter
\* are members of IntEnum classes, which hash and compare as their integer
\* values: the counters are modelled as keyed by these values.  An argument
\* of update_result is a member [cls, value] of one of the reason classes of
\* config.py, or something else.

CompletedReason == {[cls |-> "CompletedReason", value |-> 1]}
FailedReason == {[cls |-> "FailedReason", value |-> 1]}
SkippedReason == {[cls |-> "SkippedReason", value |-> v] : v \in 1..5}
TaskReason == {[cls |-> "TaskReason", value |-> 0 - 1]}
REASON_ALL == 0 - 1
PlainInt == {[cls |-> "int", value |-> 1]}

\* What update_result may be called with.
ReasonArgs == CompletedReason \cup FailedReason \cup SkippedReason \cup TaskReason \cup PlainInt

\* The keys a Counter of the summary can get.
CounterKeys == {a.value : a \in ReasonArgs}

\* _get_task_result: the TaskResult of the class of the reason, "raise" for
\* the ValueError.
get_task_result_of(task_reason) ==
    IF task_reason \in CompletedReason THEN "COMPLETED"
    ELSE IF task_reason \in FailedReason THEN "FAILED"
    ELSE IF task_reason \in SkippedReason THEN "SKIPPED"
    ELSE "raise"

\* TASK_REASON_MAPPING.
TASK_REASON_MAPPING(task_result) ==
    IF task_result = "COMPLETED" THEN CompletedReason
    ELSE IF task_result = "FAILED" THEN FailedReason
    ELSE SkippedReason

\* The two increments of an update_result that forgets the total.
counted_without_total(counts, task_result, key) ==
    [counts EXCEPT ![task_result][key] = @ + 1]

\* The two increments of update_result, one after the other.
counted(counts, task_result, key) ==
    LET first == [counts EXCEPT ![task_result][key] = @ + 1]
    IN  [first EXCEPT ![task_result][REASON_ALL] = @ + 1]

\* One call of SummaryManager.update_result.
UpdateResult(task_reason) ==
    LET task_result == get_task_result_of(task_reason)
        raises == IF task_result = "raise" THEN TRUE
                  ELSE task_reason \notin TASK_REASON_MAPPING(task_result)
    IN  /\ summary.returned + summary.raised < MaxCalls
        /\ summary' = IF raises
                      THEN [summary EXCEPT !.raised = @ + 1]
                      ELSE [summary EXCEPT
                              !.counts = counted(@, task_result, task_reason.value),
                              !.returned = @ + 1]
        /\ UNCHANGED <<inputs, shared, percall, driver, history>>
        /\ UNCHANGED <<appender, rewriter, staging, updater, batch>>

NextSummary == \E task_reason \in ReasonArgs : UpdateResult(task_reason)

\* A new SummaryManager: three empty Counters.
InitSummary ==
    /\ num_tasks = 1
    /\ max_workers = 1
    /\ host = [i \in 1..num_tasks |-> "h1"]
    /\ size = [i \in 1..num_tasks |-> 1]
    /\ ignore_hit = [i \in 1..num_tasks |-> FALSE]
    /\ include_miss = [i \in 1..num_tasks |-> FALSE]
    /\ seed_status = {}
    /\ arg_retries = MainRetries
    /\ observe = FALSE
    /\ session_log = NoFile
    /\ temp = [i \in 1..num_tasks |-> NoFile]
    /\ final = [i \in 1..num_tasks |-> NoFile]
    /\ InitRest

SpecSummary == InitSummary /\ [][NextSummary]_vars

\* ------------------------------------------ faults of the session log I/O
\* write_on_session_log when an operation on the file system raises an
\* OSError.  io "mkdir": session_path.parent.mkdir raises, outside any
\* try block, and the OSError leaves write_on_session_log; "read": reading
\* the file raises, existing is taken to be empty and the link is appended
\* whether or not it is there; "append": opening or writing raises, the
\* error is logged and nothing is written.
IoFaults == {"mkdir", "read", "append"}

write_on_session_log_fault(log, link, io) ==
    IF io = "read"
    THEN [log |-> appended_line(log, link), raised |-> FALSE]
    ELSE [log |-> log, raised |-> io = "mkdir"]

\* download() up to the call of attempt_download when its call of
\* write_on_session_log meets the fault io.  The call in the branch
\* "is_offline and is_final_attempt" stands in try/except Exception; the
\* call in _skip_file_download stands in none, and an OSError raised there
\* leaves download() before update_summary is reached.
DlCheckFault(i, io) ==
    LET d == download_checks(Bypass(i), is_in_session_log(session_log, i),
                             retries[i] = 1, subdomain_is_offline(host[i], Status(i)),
                             final[i].exists, Ign(i), Inc(i))
        w == write_on_session_log_fault(session_log, i, io)
        guarded == retries[i] = 1
        escapes == w.raised /\ ~guarded
    IN  /\ pc[i] = "dl_check"
        /\ d.log_write
        /\ io = "read" => session_log.exists
        /\ call' = [call EXCEPT ![i] =
                      [base |-> Len(recorded[i]), saw_marked |-> host[i] \in marked,
                       in_log |-> is_in_session_log(session_log, i),
                       had_final |-> final[i].exists]]
        /\ is_final' = [is_final EXCEPT ![i] = retries[i] = 1]
        /\ attempt' = [attempt EXCEPT ![i] = 0]
        /\ ret' = [ret EXCEPT ![i] = "none"]
        /\ session_log' = w.log
        /\ Summarise(i, IF escapes THEN "none" ELSE d.reason)
        /\ pc' = [pc EXCEPT ![i] = IF escapes THEN "escaped" ELSE "returned"]
        /\ UNCHANGED <<inputs, fileops, semaphore, bunkr_status, retry_status, failed_downloads,
                       post_retry_count, temp, final>>
        /\ UNCHANGED <<mode, retries, driver, handed, net_requests, marked, xfer, deferred,
                       retry_loops>>

\* _handle_failed_download when its call of write_on_session_log meets the
\* fault io: both calls stand in try/except Exception.
FinishFault(i, io) ==
    LET h == _handle_failed_download(is_final[i])
        w == write_on_session_log_fault(session_log, i, io)
    IN  /\ pc[i] = "failed"
        /\ io = "read" => session_log.exists
        /\ Summarise(i, h.reason)
        /\ ret' = [ret EXCEPT ![i] = h.ret]
        /\ post_retry_count' = IF h.counted THEN post_retry_count + 1 ELSE post_retry_count
        /\ session_log' = w.log
        /\ pc' = [pc EXCEPT ![i] = "returned"]
        /\ UNCHANGED <<inputs, fileops, semaphore, bunkr_status, retry_status, failed_downloads,
                       temp, final>>
        /\ UNCHANGED <<mode, retries, is_final, attempt, driver>>
        /\ deferred' = IF mode[i] = "main" /\ h.ret = "record"
                       THEN [deferred EXCEPT ![i] = TRUE] ELSE deferred
        /\ UNCHANGED <<handed, net_requests, marked, call, xfer, retry_loops>>

\* An exception left the download() of an item of the main pass:
\* asyncio.gather re-raises it in download_album, validate_and_download
\* catches only the exceptions of requests, and main only KeyboardInterrupt.
\* The run ends there, without the retry passes.
GatherRaised ==
    /\ phase = "main"
    /\ \E i \in Items : mode[i] = "main" /\ pc[i] = "escaped"
    /\ phase' = "aborted"
    /\ UNCHANGED <<inputs, fileops, shared, percall, urls, idx, failed_urls, history>>

NextFault ==
    \/ Next
    \/ \E i \in Items : \E io \in IoFaults : DlCheckFault(i, io)
    \/ \E i \in Items : \E io \in IoFaults : FinishFault(i, io)
    \/ GatherRaised

\* The run of Spec with faults of the session log I/O.
SpecFault == Init /\ [][NextFault]_vars

\* ================================================================== claims
\* What the current call of download() for item i recorded in the summary.
RecordedByCall(i) == SubSeq(recorded[i], call[i].base + 1, Len(recorded[i]))

\* How often link i stands in the session log.
Occurrences(i) ==
    Cardinality({k \in 1..Len(get_session_urls(session_log)) :
                    get_session_urls(session_log)[k] = i})

LastRecorded(i) == IF recorded[i] = <<>> THEN "none" ELSE recorded[i][Len(recorded[i])]

\* C1: in every reachable state of download_album with limit max_workers,
\* the number of items inside the limiter-guarded section (page fetch and
\* download()) is at most max_workers.
C1_BoundedConcurrency == Cardinality(InFlight) <= max_workers

\* The limiter is full while an item still waits for admission.
C1_Witness ==
    /\ Cardinality(InFlight) = max_workers
    /\ \E i \in Items : pc[i] = "pending"

\* C2: after the full run every item of the album has been recorded in the
\* summary exactly once.
C2_EveryItemRecordedOnce ==
    phase = "done" => \A i \in Items : Len(recorded[i]) = 1

\* C3: after the run, a link whose trailing attempt succeeded is absent from
\* the session log, and a link whose trailing attempt failed too is in the
\* session log exactly once.
C3_LedgerConvergence ==
    phase = "done" =>
        \A i \in Items :
            /\ LastRecorded(i) = "DOWNLOAD_SUCCESS" => Occurrences(i) = 0
            /\ LastRecorded(i) = "MAX_RETRIES_REACHED" => Occurrences(i) = 1

\* What C4 promises of every state of the scenario: at most MAX_WORKERS
\* items are in flight, nothing is recorded Failed or Skipped, nothing is
\* deferred and no session log is written.
C4_Always ==
    /\ Cardinality(InFlight) <= MAX_WORKERS
    /\ get_result_count(result_counts, "FAILED") = 0
    /\ get_result_count(result_counts, "SKIPPED") = 0
    /\ failed_downloads = <<>>
    /\ get_session_urls(session_log) = <<>>

\* The end of the scenario: the run is over with five items Completed.
C4_End ==
    /\ phase = "done"
    /\ get_result_count(result_counts, "COMPLETED") = 5
    /\ \A i \in Items : recorded[i] = <<"DOWNLOAD_SUCCESS">> /\ final[i] = File(Entity(size[i]))

\* C4: in the scenario (five items, limit 3, items 2 and 4 answered 429
\* once and then served) the run always keeps at most 3 items in flight,
\* records nothing Failed or Skipped, writes no session log, and ends with
\* the Completed count equal to 5.
C4_Scenario == [](C4_Always /\ (phase = "done" => C4_End)) /\ <>C4_End

\* The run of the scenario is over; on the way items 2 and 4 were asked for
\* twice (attempt 1 is the one that succeeded).
C4_Witness == C4_End /\ num_tasks = 5 /\ max_workers = 3

\* Three items of the scenario are in flight, item 2 after its 429 answer.
C4_Busy ==
    /\ Cardinality(InFlight) = 3
    /\ pc[2] = "attempt" /\ attempt[2] = 1

\* C5: a call of download() that begins after the host of its item was
\* marked offline in this run, for an item with no final file and (in the
\* main pass) not in the session log, issues no request and records
\* Skipped(DOMAIN_OFFLINE).
C5_HostShortCircuit ==
    \A i \in Items :
        (/\ pc[i] = "returned"
         /\ call[i].saw_marked
         /\ ~call[i].had_final
         /\ (mode[i] = "session" \/ ~call[i].in_log))
        => /\ net_requests[i] = 0
           /\ RecordedByCall(i) = <<"DOMAIN_OFFLINE">>

\* The album as a re-run finds it: the final file of every item exists.
AllFinalsExist == \A i \in Items : start.final[i].exists

\* C6: when the final file of every item exists, every item handed to
\* download() is recorded Skipped(ALREADY_DOWNLOADED) once and nothing else,
\* no call issues a request, and neither the final files nor the session
\* log change.
C6_RerunIdempotent ==
    AllFinalsExist =>
        /\ \A i \in Items : net_requests[i] = 0
        /\ final = start.final
        /\ phase = "done" =>
                /\ \A i \in Items : handed[i] => recorded[i] = <<"ALREADY_DOWNLOADED">>
                /\ session_log = start.log

\* The last iteration of the attempt loop of item i sent "Range: bytes=P-"
\* for a staging file of P bytes and was answered a1.
Ranged(i) == xfer[i].next # "none" /\ xfer[i].range_from > 0

\* The answer serves an entity of S bytes from byte `from` on in full:
\* it declares S, delivers every byte and ends cleanly.
FullAnswer(a, S, from) ==
    /\ a.kind = "ok"
    /\ a.declared = S
    /\ a.deliver = S - from
    /\ a.fin = "end"

\* C7: a staging file of P bytes, 0 < P < S, whose range request from byte P
\* is answered 206 with the bytes [P, S) and the declared total S, becomes
\* the final file of exactly S bytes (the P old bytes, then the received
\* ones), and no staging file is left.
C7_ResumeHonoured ==
    \A i \in Items :
        (/\ Ranged(i)
         /\ xfer[i].range_from < size[i]
         /\ xfer[i].first.status = 206
         /\ FullAnswer(xfer[i].first, size[i], xfer[i].range_from))
        => /\ xfer[i].range_from = StSize(xfer[i].before)
           /\ final[i] = File(xfer[i].before.data
                                \o SubSeq(Entity(size[i]), xfer[i].range_from + 1, size[i]))
           /\ Len(final[i].data) = size[i]
           /\ ~temp[i].exists
           /\ pc[i] \in {"ok", "returned"}

\* A one-byte staging file was resumed to a two-byte final file.
C7_Witness ==
    \E i \in Items :
        /\ Ranged(i)
        /\ xfer[i].range_from = 1 /\ size[i] = 2
        /\ xfer[i].first.status = 206
        /\ FullAnswer(xfer[i].first, 2, 1)
        /\ final[i] = File(<<0 - 1, 2>>)

\* The answer whose body the last iteration gave to save_file_with_progress.
Saved(i) == IF xfer[i].saved = "second" THEN xfer[i].second ELSE xfer[i].first

\* No byte of a file was found on disk when the run began.
Fresh(f) == \A k \in 1..Len(f.data) : f.data[k] > 0

C9_Promotion ==
    \A i \in Items :
        /\ (final[i].exists /\ ~start.final[i].exists)
            => (Len(final[i].data) = size[i] \/ final[i] = File(ErrorPage))
        /\ (xfer[i].saved # "none" /\ xfer[i].sv.promoted)
            => /\ xfer[i].sv.declared # 0 - 1
               /\ xfer[i].sv.total = xfer[i].sv.declared
               /\ Len(final[i].data) = xfer[i].sv.declared
        /\ (/\ xfer[i].saved # "none"
            /\ Saved(i).fin = "end"
            /\ (xfer[i].sv.declared = 0 - 1 \/ xfer[i].sv.total # xfer[i].sv.declared))
            => /\ ~final[i].exists
               /\ temp[i].exists /\ Len(temp[i].data) = xfer[i].sv.total
               /\ xfer[i].sv.failed
               /\ pc[i] \in {"failed", "returned"}

\* A stream of unknown size ended cleanly after delivering the whole entity:
\* the staging file stays and nothing is promoted.
C9_Witness ==
    \E i \in Items :
        /\ xfer[i].saved = "first"
        /\ xfer[i].first.fin = "end"
        /\ xfer[i].sv.declared = 0 - 1
        /\ xfer[i].sv.total = size[i]
        /\ temp[i] = File(Entity(size[i]))
        /\ ~final[i].exists

\* No exception of the transport has left a call of download().
NothingEscaped == \A i \in Items : pc[i] # "escaped"

\* The call for item i returned None after one update of the summary, or a
\* deferral record after none.
OneOutcome(i) ==
    IF ret[i] = "record" THEN RecordedByCall(i) = <<>>
    ELSE Len(RecordedByCall(i)) = 1

\* The call for item i found its link in the session log, which it was not
\* told to bypass: it returned None with no update of the summary.
LeftToRetryPass(i) ==
    /\ call[i].in_log /\ ~Bypass(i)
    /\ ret[i] = "none"
    /\ RecordedByCall(i) = <<>>
    /\ net_requests[i] = 0

\* C10 as stated: every call of download() that returned has one outcome,
\* and no exception of the transport escapes.
C10_Original ==
    /\ NothingEscaped
    /\ \A i \in Items : pc[i] = "returned" => OneOutcome(i)

\* C10: no exception of the transport escapes download(); a call that
\* returned gave None after exactly one update of the summary, or a deferral
\* record after none, or - when it found its link in the session log and was
\* not told to bypass it - None after no update and no request.
C10_OneOutcome ==
    /\ NothingEscaped
    /\ \A i \in Items :
            pc[i] = "returned" =>
                IF call[i].in_log /\ ~Bypass(i) THEN LeftToRetryPass(i) ELSE OneOutcome(i)

\* A read timeout in mid-stream was caught: the call returned a deferral
\* record.
C10_Witness ==
    \E i \in Items :
        /\ pc[i] = "returned"
        /\ xfer[i].next = "raised"
        /\ ret[i] = "record"
        /\ RecordedByCall(i) = <<>>

\* The attempts the MediaDownloader of the current call of item i was
\* created with: the run's argument in the main pass, 1 in a retry pass.
CreatedWith(i) == IF mode[i] = "main" THEN arg_retries ELSE 1

\* The answer of the last iteration that ended the attempt loop.
FailingAnswer(i) ==
    IF xfer[i].ignored /\ xfer[i].saved = "none" THEN xfer[i].second ELSE xfer[i].first

\* The answer is classified "whole host is down".
HostDown(a) ==
    a.kind = "noresp" \/ (a.kind = "err" /\ a.status \in {SERVER_DOWN, SERVICE_UNAVAILABLE})

\* The call of download() for item i returned after its attempt loop ended
\* without success and without a host-down abort.
LoopFailed(i) ==
    /\ pc[i] = "returned"
    /\ xfer[i].next \in {"failed", "raised"}
    /\ ~HostDown(FailingAnswer(i))

C11_WitnessFinal ==
    \E i \in Items :
        /\ LoopFailed(i)
        /\ mode[i] = "session"
        /\ RecordedByCall(i) = <<"MAX_RETRIES_REACHED">>

\* C12: once download_album is past asyncio.gather, every item of the album
\* was handed to a MediaDownloader in the main phase, and the coroutine of
\* every item has ended.
C12_EveryItemHandedOnce ==
    phase # "main" =>
        \A i \in Items :
            /\ handed[i]
            /\ pc[i] # "pending" /\ ~(mode[i] = "main" /\ pc[i] \in Guarded)

\* Item i has not ended its main phase: it waits for the limiter or is
\* inside the guarded section.
MainUnfinished(i) == mode[i] = "main" /\ pc[i] # "done"

\* A call of download() of a retry pass (album-level or session) has started
\* for item i.
RetryStarted(i) == mode[i] \in {"album", "session"}

\* C13: when a retry pass - the album-level one or the session retry pass -
\* is under way or has started a call of download(), no item of the main
\* phase is pending or in flight.
C13_Barrier ==
    (phase # "main" \/ \E i \in Items : RetryStarted(i))
        => \A j \in Items : ~MainUnfinished(j)

\* The session retry pass requests item 1 of a two-item album whose other
\* item was handed to download() in the main phase and has ended.
C13_Witness ==
    /\ num_tasks = 2
    /\ mode[1] = "session" /\ pc[1] = "attempt"
    /\ mode[2] = "main" /\ pc[2] = "done" /\ handed[2]

\* ---------------------------------------------------------------------------
\* C14: at the end of the run every item that the main pass
\* deferred has had exactly one attempt loop begun for it by the album-level
\* retry and the session retry pass together.
C14_ExactlyOneFurtherAttempt ==
    phase = "done" => \A i \in Items : deferred[i] => retry_loops[i] = 1

\* An item deferred by a failed attempt loop of the main pass whose host the
\* session retry pass itself marked offline before reaching it.
C14_WitnessNone ==
    /\ phase = "done"
    /\ \E i \in Items :
           /\ deferred[i] /\ retry_loops[i] = 0
           /\ ~is_in_session_log(start.log, i)
           /\ recorded[i] = <<"DOMAIN_OFFLINE">>

\* ---------------------------------------------------------------------------
\* The link of item i was in the ledger when the main pass reached it: only
\* the call for item i writes link i, so it was there from the start.
InLedgerWhenReached(i) == is_in_session_log(start.log, i) /\ handed[i]

\* The first two parts of C15: the main-pass call returns with no request
\* made, nothing recorded and the item counted as deferred.
C15_DeferredAtOnce ==
    \A i \in Items :
        (InLedgerWhenReached(i) /\ mode[i] = "main" /\ pc[i] = "returned") =>
            /\ net_requests[i] = 0
            /\ ret[i] = "none"
            /\ recorded[i] = <<>>
            /\ deferred[i]

\* C15: an item whose link is in the ledger when the main pass reaches it
\* makes no request in the main pass, is deferred at once, and gets its one
\* attempt loop in the trailing pass and nowhere else.
C15_InLedgerOneTrailingAttempt ==
    /\ C15_DeferredAtOnce
    /\ \A i \in Items :
           InLedgerWhenReached(i) =>
               /\ mode[i] \in {"main", "album"} => retry_loops[i] = 0
               /\ phase = "done" => retry_loops[i] = 1

\* An item found in the ledger by the main pass that the session retry pass
\* skipped because the status page it fetched lists the host as down.
C15_WitnessNone ==
    /\ phase = "done"
    /\ \E i \in Items :
           /\ InLedgerWhenReached(i) /\ deferred[i]
           /\ retry_loops[i] = 0
           /\ recorded[i] = <<"DOMAIN_OFFLINE">>

\* ---------------------------------------------------------------------------
\* How often a link stands in the session log.
Lines(link) ==
    Cardinality({k \in 1..Len(get_session_urls(session_log)) :
                    get_session_urls(session_log)[k] = link})

\* C16: whatever the interleaving of the calls of write_on_session_log, no
\* link stands on two lines of the file, and the link of every call that
\* has returned stands on exactly one.
C16_NoDuplicateLines ==
    /\ \A link \in Links : Lines(link) <= 1
    /\ \A w \in Writers :
           (appender[w].pc = "idle" /\ appender[w].key # 0) => Lines(appender[w].key) = 1

\* Two worker threads have read the file for the same link, which neither
\* found, and both are about to append it.
C16_WitnessRace ==
    \E w1, w2 \in Writers :
        /\ w1 # w2
        /\ appender[w1].pc = "read" /\ appender[w2].pc = "read"
        /\ appender[w1].key = appender[w2].key
        /\ appender[w1].key \notin appender[w1].existing \cup appender[w2].existing

\* ---------------------------------------------------------------------------
\* C17: when the process crashes while the session retry pass mutates the
\* session log, the file holds the whole content from before the mutation
\* under way or the whole content after it.
C17_CrashLeavesWholeLedger ==
    rewriter.pc = "crashed" => session_log \in {rewriter.before, rewriter.after}

\* A crash between open("w") and the last flush of a rewrite that has lines
\* to write.
C17_WitnessCrash ==
    /\ rewriter.pc = "crashed"
    /\ rewriter.buf # <<>>
    /\ session_log # rewriter.before

\* ---------------------------------------------------------------------------
\* C18: an item goes Pending -> InProgress -> {Completed, Skipped, Deferred}
\* and Deferred -> InProgress(retry) -> {Completed, Failed} and nowhere else:
\* its outcome is recorded at most once, no call of download() begins for an
\* item whose outcome is recorded, only an item deferred by the main pass
\* gets a call of a retry pass, and such a call records Completed or Failed.
C18_ItemStateMachine ==
    \A i \in Items :
        /\ Len(recorded[i]) <= 1
        /\ call[i].base = 0
        /\ mode[i] \in {"album", "session"} =>
               /\ deferred[i]
               /\ \A k \in 1..Len(RecordedByCall(i)) :
                      _get_task_result(RecordedByCall(i)[k]) \in {"COMPLETED", "FAILED"}

\* The legal path through the retry pass: an item deferred by the main pass
\* and completed by the session retry pass.
C18_Witness ==
    \E i \in Items :
        /\ deferred[i] /\ mode[i] = "session" /\ pc[i] = "returned"
        /\ recorded[i] = <<"DOWNLOAD_SUCCESS">>

\* An item skipped in the main pass because its host was offline, called
\* again by the session retry pass and skipped again.
C18_WitnessTwice ==
    \E i \in Items :
        /\ mode[i] = "session" /\ ~deferred[i]
        /\ recorded[i] = <<"DOMAIN_OFFLINE", "DOMAIN_OFFLINE">>

\* ---------------------------------------------------------------------------
\* The session retry pass is through with item i.
Resolved(i) == mode[i] = "session" /\ pc[i] = "done"

\* The items the main pass deferred that the trailing pass has not resolved.
Unresolved == {i \in Items : deferred[i] /\ ~Resolved(i)}

\* The parts of C19 about the sign and the final value of the counter.
C19_CounterEnds ==
    /\ post_retry_count >= 0
    /\ phase = "done" => post_retry_count = 0

\* C19: in every state post_retry_count is the number of items deferred and
\* not yet resolved; it is never negative and is 0 when the run has ended.
C19_CounterIsUnresolved ==
    /\ post_retry_count = Cardinality(Unresolved)
    /\ C19_CounterEnds

\* One item is deferred and unresolved, and the counter stands at two: the
\* album-level retry has counted it again.
C19_WitnessTwice ==
    /\ Cardinality(Unresolved) = 1
    /\ post_retry_count = 2
    /\ \E i \in Items : mode[i] = "album" /\ pc[i] = "returned"

\* ---------------------------------------------------------------------------
\* The main-pass coroutine of item i has ended: the item was admitted and
\* has left the limiter, with its download() returned if it had a link.
Through(i) == i \in Items => (pc[i] # "pending" /\ ~(mode[i] = "main" /\ pc[i] \in Guarded))

\* C20: whatever fails for whichever items, every item is eventually
\* admitted and gets through the main pass, and the run eventually goes
\* through the session retry pass to its end.
C20_FailuresBlockNothing ==
    /\ \A i \in 1..MaxItems : <>Through(i)
    /\ <>(phase = "done")

\* Under a limit of one an item was deferred in the main pass, its sibling
\* was downloaded in the main pass, and the run has ended.
C20_Witness ==
    /\ phase = "done"
    /\ max_workers = 1
    /\ \E i, j \in Items :
           /\ i # j
           /\ deferred[i]
           /\ mode[j] = "main" /\ recorded[j] = <<"DOWNLOAD_SUCCESS">>

\* ---------------------------------------------------------------------------
\* The call of download() for item i went past the session log check.
PastLedgerCheck(i) == Bypass(i) \/ ~call[i].in_log

\* The outcome the order final artifact, exclude filter, include filter,
\* offline host gives for what the call for item i found.  The filters are
\* those of the run; in SpecXfer no sibling changes the status map between
\* the checks and the return.
OrderedSkip(i) ==
    _skip_file_download(call[i].had_final, ignore_hit[i], include_miss[i],
                        subdomain_is_offline(host[i], Status(i)))

\* The checks of the call for item i have just been made.
ChecksMade(i) ==
    /\ PastLedgerCheck(i)
    /\ net_requests[i] = 0
    /\ \/ pc[i] = "returned"
       \/ pc[i] = "attempt" /\ attempt[i] = 0 /\ call[i] # NoCall

SkipInOrder(i) ==
    IF OrderedSkip(i) = "none"
    THEN pc[i] = "attempt" /\ RecordedByCall(i) = <<>>
    ELSE /\ pc[i] = "returned"
         /\ RecordedByCall(i) = <<OrderedSkip(i)>>
         /\ OrderedSkip(i) = "DOMAIN_OFFLINE" => is_in_session_log(session_log, i)

\* The order as the main pass keeps it.
C21_MainPassOrder ==
    \A i \in Items : (mode[i] = "main" /\ ChecksMade(i)) => SkipInOrder(i)

\* C21: in every call of download(), of the main pass and of the trailing
\* pass, the first of final artifact exists, exclude filter matches, include
\* filter fails, host offline that holds decides the outcome, and the
\* offline skip leaves the link in the session log.
C21_SkipOrder ==
    \A i \in Items : ChecksMade(i) => SkipInOrder(i)

\* A call of the session retry pass for an item whose final artifact exists
\* and whose host is offline: it is recorded as DOMAIN_OFFLINE.
C21_WitnessOffline ==
    \E i \in Items :
        /\ mode[i] = "session" /\ pc[i] = "returned"
        /\ call[i].had_final
        /\ RecordedByCall(i) = <<"DOMAIN_OFFLINE">>

\* A call of the session retry pass for an item the exclude filter of the
\* run matches: it goes on to the attempt loop.
C21_WitnessFilter ==
    \E i \in Items :
        /\ mode[i] = "session" /\ pc[i] = "attempt"
        /\ ignore_hit[i] /\ ~call[i].had_final

\* ---------------------------------------------------------------------------
\* A request of the last iteration of the attempt loop for item i was
\* classified as "the whole host is down".
DownAnswered(i) ==
    /\ xfer[i].next # "none"
    /\ HostDown(xfer[i].first) \/ (xfer[i].ignored /\ HostDown(xfer[i].second))

\* C22: after a request classified as host down the attempt loop is left
\* with no further request, whatever number of attempts remains, the host
\* is flagged offline in the status map of the call, and the album-level
\* retry of the same pass issues no request for the item either.
C22_HostDownAborts ==
    \A i \in Items :
        /\ DownAnswered(i) =>
               /\ xfer[i].next = "failed"
               /\ pc[i] \in {"failed", "returned"}
               /\ subdomain_is_offline(host[i], Status(i))
        /\ mode[i] = "album" => (pc[i] # "attempt" /\ net_requests[i] = 0)

\* The first of two attempts got no response: the call has returned after
\* that one request.
C22_Witness ==
    \E i \in Items :
        /\ DownAnswered(i) /\ xfer[i].first.kind = "noresp"
        /\ mode[i] = "main" /\ retries[i] = MainRetries /\ attempt[i] = 0
        /\ net_requests[i] = 1
        /\ pc[i] = "returned"

\* ---------------------------------------------------------------------------
RateLimited(a) == a.kind = "err" /\ a.status = TOO_MANY_REQUESTS

\* Parts (a) and (c) of C23: a call whose every request was answered 429
\* has issued exactly as many requests as the downloader was created with
\* attempts, and its loop reports failure; the loop sleeps and goes on after
\* an attempt only when another attempt remains.
C23_Budget ==
    \A i \in Items :
        /\ (xfer[i].next = "failed" /\ RateLimited(xfer[i].first)) =>
               /\ net_requests[i] = CreatedWith(i)
               /\ attempt[i] = CreatedWith(i) - 1
               /\ pc[i] \in {"failed", "returned"}
        /\ xfer[i].next = "retry" =>
               /\ RateLimited(xfer[i].first)
               /\ attempt[i] < retries[i]
               /\ net_requests[i] = attempt[i]

C23_Witness ==
    \E i \in Items :
        /\ mode[i] = "main" /\ pc[i] = "returned"
        /\ xfer[i].next = "failed" /\ RateLimited(xfer[i].first)
        /\ net_requests[i] = MainRetries

AttemptsRemained(i) == xfer[i].next # "none" /\ attempt[i] < CreatedWith(i) - 1

\* C24: a request that fails without any response (timeout, connection
\* reset) while attempts remain is followed by another attempt of the same
\* call.
C24_TransportErrorRetried ==
    \A i \in Items :
        (AttemptsRemained(i) /\ xfer[i].first.kind = "noresp") => xfer[i].next = "retry"

\* The first of two attempts got no response and the loop was left: the
\* failure is about to be handled.
C24_WitnessAborted ==
    \E i \in Items :
        /\ AttemptsRemained(i) /\ xfer[i].first.kind = "noresp"
        /\ pc[i] = "failed" /\ net_requests[i] = 1
        /\ subdomain_is_offline(host[i], bunkr_status)

\* ---------------------------------------------------------------------------
\* The body the last iteration saved ended early (ChunkedEncodingError or
\* ConnectionError of the stream) or ended cleanly with a byte count other
\* than the declared total.
StreamFellShort(i) ==
    /\ xfer[i].saved # "none"
    /\ IF Saved(i).fin # "end" THEN TRUE
       ELSE xfer[i].sv.declared # 0 - 1 /\ xfer[i].sv.total # xfer[i].sv.declared

\* C25: an incomplete stream or a size mismatch while attempts remain is
\* followed by another attempt of the same call.
C25_ShortStreamRetried ==
    \A i \in Items :
        (AttemptsRemained(i) /\ StreamFellShort(i)) => xfer[i].next = "retry"

\* The first of two attempts delivered one byte of two and the stream broke;
\* the call returned a deferral record after that one request, the byte left
\* in the staging file.
C25_WitnessDeferred ==
    \E i \in Items :
        /\ AttemptsRemained(i) /\ StreamFellShort(i)
        /\ Saved(i).fin = "chunked"
        /\ pc[i] = "returned" /\ ret[i] = "record" /\ net_requests[i] = 1
        /\ temp[i] = File(<<1>>)

\* ---------------------------------------------------------------------------
\* An error status that is neither the rate limit nor a host-down status.
ClientError(a) ==
    a.kind = "err" /\ a.status \notin {TOO_MANY_REQUESTS, SERVER_DOWN, SERVICE_UNAVAILABLE}

\* The answer that ended the last iteration of item i was a client error.
ClientErrorAnswered(i) ==
    /\ xfer[i].next # "none"
    /\ ClientError(xfer[i].first) \/ (xfer[i].ignored /\ ClientError(xfer[i].second))

\* C26: a client error ends the attempt loop with that request: the loop
\* does not sleep and go on, whatever number of attempts remains, no further
\* request follows in that call, and the call does not mark the host
\* offline.
C26_ClientErrorAborts ==
    \A i \in Items :
        ClientErrorAnswered(i) =>
            /\ xfer[i].next = "failed"
            /\ pc[i] \in {"failed", "returned"}
            /\ net_requests[i] = attempt[i] + (IF xfer[i].ignored THEN 2 ELSE 1)
            /\ host[i] \in marked => call[i].saw_marked
            /\ subdomain_is_offline(host[i], Status(i)) => host[i] \in seed_status \cup marked

\* The first of two attempts was answered with a client error: the call has
\* returned after that one request and the host is not marked.
C26_Witness ==
    \E i \in Items :
        /\ ClientError(xfer[i].first) /\ xfer[i].first.status # BAD_GATEWAY
        /\ AttemptsRemained(i) /\ attempt[i] = 0
        /\ pc[i] = "returned" /\ net_requests[i] = 1
        /\ ~subdomain_is_offline(host[i], bunkr_status)

\* ---------------------------------------------------------------------------
\* C27: whatever operation of a ledger write raises an OSError, no
\* exception leaves download() and the run is not aborted.
C27_LedgerFaultContained ==
    /\ phase # "aborted"
    /\ \A i \in Items : pc[i] # "escaped"

\* The directory of the session log could not be created when a main-pass
\* item of an offline host was about to be skipped: the OSError has left
\* download() with nothing recorded for the item.
C27_WitnessEscaped ==
    \E i \in Items :
        /\ mode[i] = "main" /\ pc[i] = "escaped"
        /\ net_requests[i] = 0
        /\ subdomain_is_offline(host[i], bunkr_status)
        /\ recorded[i] = <<>>

\* The faults of the ledger writes of _handle_failed_download are contained:
\* the item was deferred although its link could not be written.
C27_WitnessContained ==
    \E i \in Items :
        /\ mode[i] = "main" /\ pc[i] = "returned" /\ ret[i] = "record"
        /\ ~is_in_session_log(session_log, i)

\* ---------------------------------------------------------------------------
\* C28: two workers of one album, whose final paths differ, never have the
\* same staging path, and so are never writing to the same staging file at
\* the same time.
C28_StagingPathsDistinct ==
    \A v, w \in Writers :
        (v # w /\ staging[v].pc # "idle" /\ staging[w].pc # "idle") =>
            staging[v].temp # staging[w].temp

\* Two workers whose final names differ in the suffix alone are both
\* writing to the same staging file.
C28_WitnessClash ==
    \E v, w \in Writers :
        /\ v # w
        /\ staging[v].pc = "writing" /\ staging[w].pc = "writing"
        /\ staging[v].final = <<"a", ".", "a">> /\ staging[w].final = <<"a", ".", "b">>
        /\ staging[v].temp = staging[w].temp

\* ---------------------------------------------------------------------------
RECURSIVE SumOver(_, _)
SumOver(f, S) ==
    IF S = {} THEN 0
    ELSE LET w == CHOOSE x \in S : TRUE IN f[w] + SumOver(f, S \ {w})

UpdatesMade(field) == SumOver([w \in Writers |-> updater[w][field]], Writers)

\* C29: whatever the interleaving of the worker threads' updates, once
\* they are done the deferred counter and the summary counters equal the
\* number of updates made.
C29_NoLostUpdate ==
    (\A w \in Writers : updater[w].pc = "idle") =>
        /\ post_retry_count = UpdatesMade("deferrals")
        /\ result_counts["COMPLETED"]["DOWNLOAD_SUCCESS"] = UpdatesMade("results")
        /\ result_counts["COMPLETED"]["REASON_ALL"] = UpdatesMade("results")

\* Two worker threads have both read the deferred counter before either
\* stored it.
C29_WitnessRace ==
    \E v, w \in Writers :
        /\ v # w
        /\ updater[v].pc = "loaded" /\ updater[w].pc = "loaded"
        /\ updater[v].cell = "post" /\ updater[w].cell = "post"
        /\ updater[v].value = updater[w].value

\* ---------------------------------------------------------------------------
\* Item i is inside a download() call of a retry pass.
InRetryCall(i) ==
    /\ mode[i] # "main"
    /\ pc[i] \in {"dl_check", "attempt", "ok", "failed", "returned"}

\* C30: in both retry passes the ordinal shown for a deferred item is the
\* 1-based position in the album that the main pass gave it.
C30_OrdinalKept == \A i \in Items : InRetryCall(i) => display_index(i) = i

\* The session retry pass downloads an item under another ordinal than its
\* position in the album.
C30_WitnessRenumbered ==
    \E i \in Items : InRetryCall(i) /\ mode[i] = "session" /\ display_index(i) # i

\* The album retry pass downloads the second item of the album.
C30_WitnessAlbumPass ==
    \E i \in Items : InRetryCall(i) /\ mode[i] = "album" /\ i > 1 /\ display_index(i) = i

\* ---------------------------------------------------------------------------
\* Item i was deferred and the last thing recorded for it is not a success:
\* the run ended with the item still owed an attempt.
Owed(i) ==
    deferred[i] /\ LastRecorded(i) \in {"MAX_RETRIES_REACHED", "DOMAIN_OFFLINE"}

\* The session retry pass attempted item i and it succeeded.
SucceededInSessionPass(i) ==
    mode[i] = "session" /\ LastRecorded(i) = "DOWNLOAD_SUCCESS"

\* The part of C31 about a pass in which every entry succeeds: the session
\* file is removed, not left behind empty.
C31_AllSucceededDeletes ==
    (/\ phase = "done"
     /\ urls # <<>>
     /\ \A k \in 1..Len(urls) : SucceededInSessionPass(urls[k]))
        => ~session_log.exists

\* C31: after a run the session file is absent exactly when no item is
\* still owed an attempt, and it is removed when every entry succeeded.
C31_LedgerAbsentIffNothingOwed ==
    /\ C31_AllSucceededDeletes
    /\ phase = "done" => (~session_log.exists <=> \A i \in Items : ~Owed(i))

\* The run has ended without a session file although the trailing attempt
\* of a deferred item failed.
C31_WitnessOwed ==
    /\ phase = "done"
    /\ ~session_log.exists
    /\ \E i \in Items : mode[i] = "session" /\ Owed(i)
                        /\ LastRecorded(i) = "MAX_RETRIES_REACHED"

\* The run has ended after a session retry pass in which every entry
\* succeeded.
C31_WitnessAllSucceeded ==
    /\ phase = "done"
    /\ urls # <<>>
    /\ \A k \in 1..Len(urls) : SucceededInSessionPass(urls[k])
    /\ ~session_log.exists

\* ---------------------------------------------------------------------------
\* The step ends an attempt loop of item i without success.
EndsWithoutSuccess(i) == pc[i] = "attempt" /\ pc'[i] \in {"failed", "escaped"}

\* The staging file of item i comes into being in the step.
StagingCreated(i) == ~temp[i].exists /\ temp'[i].exists

\* The staging file of item i goes away in the step.
StagingRemoved(i) == temp[i].exists /\ ~temp'[i].exists

\* The step promotes the staging file of item i to the final artifact.
Promotes(i) == pc'[i] = "ok" /\ final'[i].exists /\ final'[i] # final[i]

\* What C32 asks of a step for item i.
C32_Step(i) ==
    /\ StagingCreated(i) => StSize(temp'[i]) > 0
    /\ StagingRemoved(i) => Promotes(i)
    /\ (EndsWithoutSuccess(i) /\ (StSize(temp[i]) > 0 \/ xfer'[i].sv.total > 0))
          => StSize(temp'[i]) > 0

\* C32: the staging file is created only once a byte has been received, is
\* removed only by promotion, and after an attempt that ends without
\* success once bytes were received it exists and holds them.
C32_StagingLifecycle == [][\A i \in Items : C32_Step(i)]_vars

\* The part of C32 about the requests whose Range header is honoured or
\* absent: the bytes of the staging file are kept when the attempt fails.
C32_KeptWithoutRangeIgnored ==
    [][\A i \in Items :
          (EndsWithoutSuccess(i) /\ ~xfer'[i].ignored /\ StSize(temp[i]) > 0)
              => (temp'[i].exists /\ Len(temp'[i].data) >= StSize(temp[i]))]_vars

\* The server ignored the Range header, the staging file was removed, and
\* the second request failed: the attempt loop has ended without success
\* and without a staging file.
C32_WitnessDiscarded ==
    \E i \in Items :
        /\ pc[i] = "failed"
        /\ xfer[i].ignored /\ xfer[i].saved = "none"
        /\ StSize(xfer[i].before) > 0
        /\ ~temp[i].exists

\* An answer that delivered no byte has left an empty staging file where
\* none was before.
C32_WitnessEmptyCreated ==
    \E i \in Items :
        /\ pc[i] = "failed"
        /\ ~xfer[i].before.exists
        /\ xfer[i].saved = "first" /\ xfer[i].sv.total = 0
        /\ temp[i].exists /\ StSize(temp[i]) = 0

\* ---------------------------------------------------------------------------
FilterSkips == {"ALREADY_DOWNLOADED", "IGNORE_LIST", "INCLUDE_LIST"}

\* The step is a whole call of download() for item i that ends skipped for
\* the reason why.
SkipsWith(i, why) ==
    /\ pc[i] = "dl_check" /\ pc'[i] = "returned"
    /\ recorded'[i] = Append(recorded[i], why)

\* The step leaves the network, the files, the session log, the host
\* tracker and the deferred counter alone, and raises the count of the
\* skip reason why (and the total of Skipped) by one.
SkipFrame(i, why) ==
    /\ net_requests' = net_requests
    /\ session_log' = session_log
    /\ temp' = temp
    /\ final' = final
    /\ bunkr_status' = bunkr_status
    /\ retry_status' = retry_status
    /\ post_retry_count' = post_retry_count
    /\ \A r \in Results : \A x \in Reasons \cup {"REASON_ALL"} :
          result_counts'[r][x] =
              IF r = "SKIPPED" /\ x \in {why, "REASON_ALL"} THEN result_counts[r][x] + 1
              ELSE result_counts[r][x]

\* C33: a download() that ends Skipped as already downloaded, by the ignore
\* list or by the include list has issued no request and has changed
\* nothing but the count of that skip.
C33_SkipChangesOnlyItsCount ==
    [][\A i \in Items : \A why \in FilterSkips : SkipsWith(i, why) => SkipFrame(i, why)]_vars

\* A call of download() has ended Skipped because the final artifact was
\* there, with no request made and the session log as the run found it.
C33_WitnessAlreadyExists ==
    \E i \in Items :
        /\ pc[i] = "returned"
        /\ RecordedByCall(i) = <<"ALREADY_DOWNLOADED">>
        /\ net_requests[i] = 0
        /\ final[i].exists

\* A call of download() has ended Skipped by the ignore list.
C33_WitnessIgnored ==
    \E i \in Items : pc[i] = "returned" /\ RecordedByCall(i) = <<"IGNORE_LIST">>

\* A call of download() has ended Skipped by the include list.
C33_WitnessNotIncluded ==
    \E i \in Items : pc[i] = "returned" /\ RecordedByCall(i) = <<"INCLUDE_LIST">>

\* ---------------------------------------------------------------------------
\* The file holds a byte of an error page.
HoldsErrorPage(f) == \E k \in 1..Len(f.data) : f.data[k] \in Range(ErrorPage)

\* C34: the bytes of the staging file and of the final artifact come from
\* a response with a success status that was not superseded: after an
\* ignored range whose second request fails, no body is saved and nothing
\* is promoted.
C34_OnlySuccessfulBodiesSaved ==
    \A i \in Items :
        /\ ~HoldsErrorPage(temp[i]) /\ ~HoldsErrorPage(final[i])
        /\ (xfer[i].ignored /\ xfer[i].second.kind # "ok")
              => (xfer[i].saved = "none" /\ ~xfer[i].sv.promoted)

\* After an ignored range the second request was answered 429 with
\* attempts left: the error page was saved and promoted to the final
\* artifact.
C34_WitnessErrorPagePromoted ==
    \E i \in Items :
        /\ xfer[i].ignored
        /\ xfer[i].second.kind = "err" /\ xfer[i].second.status = TOO_MANY_REQUESTS
        /\ xfer[i].saved = "second" /\ xfer[i].sv.promoted
        /\ final[i] = File(ErrorPage)
        /\ pc[i] \in {"ok", "returned"}

\* ---------------------------------------------------------------------------
\* C35: in a batch run every link deferred while an album was processed is
\* among the links the session retry pass reads at the end of the batch,
\* and has been attempted once when the pass is over.
C35_BatchDeferredRetried ==
    /\ batch.pc \in {"retry", "done"} => batch.deferred \subseteq Range(batch.urls)
    /\ batch.pc = "done" => \A l \in batch.deferred : batch.attempts[l] = 1

\* The batch is over; a link deferred by an earlier album was never
\* attempted and is still in the session file named after that album.
C35_WitnessStranded ==
    /\ batch.pc = "done"
    /\ \E l \in batch.deferred :
          /\ batch.attempts[l] = 0
          /\ batch.ident[l] # batch.path
          /\ l \in Range(get_session_urls(batch.files[batch.ident[l]]))

\* The batch is over and every album has deferred its link to the session
\* file of one shared identifier: all of them were attempted once.
C35_WitnessShared ==
    /\ batch.pc = "done"
    /\ batch.deferred = Albums
    /\ \A l \in Albums : batch.attempts[l] = 1

\* ---------------------------------------------------------------------------
\* The attempt loops stay within the attempts their MediaDownloader was
\* created with.
LoopsBounded == \A i \in Items : attempt[i] < CreatedWith(i)

\* Once the main pass is over every slot of the limiter has been given back.
SlotsReturned == phase # "main" => semaphore = max_workers

\* The run is over and every item has come to its end.
RunOver == phase = "done" /\ \A i \in Items : pc[i] = "done"

\* Item i has been admitted by the limiter.
Admitted(i) == i \in Items => pc[i] # "pending" \/ phase # "main"

\* C36: under fair scheduling and a transport that answers or fails every
\* request, every item is eventually admitted by the limiter and comes to
\* its end, and the run terminates; the slot is given back on every exit of
\* execute_item_download, and no attempt loop goes past its attempts.
C36_RunTerminates ==
    /\ []LoopsBounded
    /\ []SlotsReturned
    /\ \A i \in 1..MaxItems : <>Admitted(i)
    /\ <>RunOver

\* Under a limit of one the page of the first item was not fetched, the
\* second item was admitted after it and went through its attempt loop,
\* and the run has ended with every slot given back.
C36_Witness ==
    /\ RunOver
    /\ max_workers = 1 /\ semaphore = 1
    /\ num_tasks = 2
    /\ ~handed[1]
    /\ handed[2] /\ recorded[2] # <<>>

\* ---------------------------------------------------------------------------
RetryPhases == {"album_retry", "session_retry"}

\* The list a retry pass walks: the records the main pass returned, or the
\* links read from the session file.
PassEntries ==
    IF phase = "album_retry" THEN failed_downloads
    ELSE IF phase = "session_retry" THEN urls
    ELSE <<>>

\* The items with a call of download() under way.
Busy == {i \in Items : pc[i] \notin {"pending", "done"}}

\* In a retry pass at most one download() is under way, and it is the one
\* for the entry the pass stands at.
OneAtATime ==
    phase \in RetryPhases =>
        /\ Cardinality(Busy) <= 1
        /\ \A i \in Busy : idx <= Len(PassEntries) /\ PassEntries[idx] = i

\* A step inside a retry pass keeps the list of entries, moves on by one
\* entry at most, and moves on only when no download() is under way any more.
InOrder ==
    (phase \in RetryPhases /\ phase' = phase) =>
        /\ PassEntries' = PassEntries
        /\ idx' \in {idx, idx + 1}
        /\ idx' = idx + 1 => (Busy # {} /\ Busy' = {})

\* C37: in both retry passes at most one transfer is in flight at any
\* time: the attempt for an entry starts only after the attempt for the
\* entry before it has ended, and the entries are taken in the order of the
\* list.
C37_RetrySequential == []OneAtATime /\ [][InOrder]_vars

\* The session retry pass is in the attempt loop of its second entry; the
\* first entry has been attempted and has ended.
C37_Witness ==
    /\ phase = "session_retry"
    /\ Len(urls) = 2 /\ idx = 2
    /\ pc[urls[2]] = "attempt"
    /\ pc[urls[1]] = "done" /\ mode[urls[1]] = "session"
    /\ recorded[urls[1]] # <<>>

\* ---------------------------------------------------------------------------
\* The sum of the counts of a Counter over the keys other than REASON_ALL.
RECURSIVE SumOfReasons(_, _)
SumOfReasons(counter, keys) ==
    IF keys = {} THEN 0
    ELSE LET key == CHOOSE x \in keys : TRUE
         IN  counter[key] + SumOfReasons(counter, keys \ {key})

SummaryResults == {"COMPLETED", "FAILED", "SKIPPED"}

\* The totals agree with the counts of the reasons and with the calls that
\* returned.
TotalsAgree ==
    /\ \A r \in SummaryResults :
          summary.counts[r][REASON_ALL]
              = SumOfReasons(summary.counts[r], CounterKeys \ {REASON_ALL})
    /\ SumOfReasons([r \in SummaryResults |-> summary.counts[r][REASON_ALL]], SummaryResults)
          = summary.returned

\* No count is smaller after a step than before it.
NoCountDecreases ==
    \A r \in SummaryResults : \A key \in CounterKeys :
        summary'.counts[r][key] >= summary.counts[r][key]

\* C38: after any sequence of calls of update_result, for each result the
\* count of REASON_ALL is the sum of the counts of its reasons, the three
\* counts of REASON_ALL add up to the number of calls that returned, and no
\* count ever decreases.
C38_SummaryTotals == []TotalsAgree /\ [][NoCountDecreases]_vars

\* Calls for a completed, a failed and a skipped item have returned and a
\* call with something that is no reason has raised.
C38_Witness ==
    /\ summary.returned = 3 /\ summary.raised = 1
    /\ summary.counts["COMPLETED"][1] = 1
    /\ summary.counts["FAILED"][1] = 1
    /\ summary.counts["SKIPPED"][1] = 1

====
